---- MODULE Spec2Model ----
(***************************************************************************)
(* Model of the procurement backend's core: the four operations of the AI  *)
(* service (parseRFPFromNaturalLanguage, parseVendorProposal,              *)
(* compareProposals, generateRFPEmail), their regex/arithmetics fallbacks  *)
(* and the envelope they return; the compare and send handlers of the RFP  *)
(* controller over the store; invocations of the service side by side;     *)
(* the proposal and RFP requests (createProposal, simulateProposal,        *)
(* parseProposal, checkEmails, deleteRFP, selectVendors) one await at a    *)
(* time, so that requests overlap; the callbacks of fetchNewEmails.        *)
(*                                                                         *)
(* Conventions                                                             *)
(*  - a JavaScript value that may be null/undefined is a record            *)
(*    [has |-> BOOLEAN, v |-> Int]; strings that may be null use NULL;     *)
(*  - a text is a sequence of whitespace separated tokens [k, n, w], in   *)
(*    lower case and without punctuation: numbers, "$" amounts, words,     *)
(*    "<n>GB RAM" and "<n> inch";                                          *)
(*  - Math.round is RoundDiv (round half towards +Infinity), computed      *)
(*    over exact rationals;                                                *)
(*  - a request in flight is a record of requests whose pc names the       *)
(*    await it is suspended at; a document deleted meanwhile is saved as   *)
(*    nothing, silently or with an error.                                  *)
(***************************************************************************)
EXTENDS Integers, Sequences, FiniteSets, TLC

\* ------------------------------------------------------------------ bounds
MaxProposals == 2

MaxRanked == 3

MaxTextLen == 3

MaxCoreProposals == 2

\* longest enumerated request text, in tokens, of the extraction runs
MaxExtractLen == 5

\* most items of an RFP handed to the email template
MaxItems == 3

\* most proposals stored for the RFP
MaxDocs == 3

\* most vendors selected for the RFP
MaxVendors == 3

\* most invocations of the service in progress side by side
MaxCalls == 2

\* most requests served one after the other
MaxRequests == 2

\* most requests of the proposal controller in progress side by side
MaxOverlap == 2

\* most proposal and RFP requests received in one run
MaxReceived == 3

\* most messages in the INBOX
MaxInbox == 2

\* most messages returned by the search of one fetch
MaxFetched == 3

\* ------------------------------------------------------- JavaScript values
NULL == "<null>"

None == [has |-> FALSE, v |-> 0]

Some(n) == [has |-> TRUE, v |-> n]

\* x || d for an optional number: null, undefined and 0 are falsy
OrElse(x, d) == IF x.has /\ x.v # 0 THEN x.v ELSE d

TruthyNum(x) == x.has /\ x.v # 0

TruthyStr(s) == s # NULL /\ s # ""

RoundDiv(a, b) == (2 * a + b) \div (2 * b)

Clamp(x) == IF x < 0 THEN 0 ELSE IF x > 100 THEN 100 ELSE x

SetMax(S) == CHOOSE x \in S : \A y \in S : y <= x

SetMin(S) == CHOOSE x \in S : \A y \in S : x <= y

\* --------------------------------------------------------------- vendors
UnknownVendor == "Unknown Vendor"

\* vendor 0 is a reference that populate() resolved to null
VendorNameOf(v) == IF v = 0 THEN UnknownVendor ELSE <<"Acme", "Bolt", "Core", "Dyna", "Echo">>[v]

\* ------------------------------------------- fallbackCompareProposals
MaxPriceOf(proposals) ==
  LET m == SetMax({OrElse(proposals[i].totalPrice, 0) : i \in 1..Len(proposals)})
  IN  IF m = 0 THEN 1 ELSE m

MinPriceOrZero(proposals) ==
  SetMin({OrElse(proposals[i].totalPrice, 0) : i \in 1..Len(proposals)})

\* Math.min over the proposals with a truthy totalPrice; only read when the
\* scored proposal has price > 0, where that set is not empty
MinPriceOf(proposals) ==
  SetMin({proposals[i].totalPrice.v : i \in {j \in 1..Len(proposals) : TruthyNum(proposals[j].totalPrice)}})

RawPriceScoreFromMax(p, proposals) ==
  LET price == OrElse(p.totalPrice, 0)
      maxPrice == MaxPriceOf(proposals)
      minPrice == MinPriceOf(proposals)
      den == IF maxPrice - minPrice = 0 THEN 1 ELSE maxPrice - minPrice
  IN  IF price > 0 THEN RoundDiv(100 * den - 50 * (maxPrice - price), den) ELSE 50

RawPriceScore(p, proposals) ==
  LET price == OrElse(p.totalPrice, 0)
      maxPrice == MaxPriceOf(proposals)
      minPrice == MinPriceOf(proposals)
      den == IF maxPrice - minPrice = 0 THEN 1 ELSE maxPrice - minPrice
  IN  IF price > 0 THEN RoundDiv(100 * den - 50 * (price - minPrice), den) ELSE 50

\* delivery values below 999 for which the double 100 - (delivery / 60) * 50
\* lies just under an exact half, so that Math.round returns one less than
\* the exact quotient rounds to
DoubleBelowHalf == {147, 249, 279, 483, 513, 543, 573, 603, 981}

RawDeliveryScore(p) ==
  LET delivery == OrElse(p.deliveryDays, 999)
  IN  IF delivery < 999
      THEN RoundDiv(100 * 60 - 50 * delivery, 60) - (IF delivery \in DoubleBelowHalf THEN 1 ELSE 0)
      ELSE 50

TermsScoreIfNotNull(p) == IF p.warranty # NULL THEN 80 ELSE 60

TermsScoreOf(p) == IF TruthyStr(p.warranty) THEN 80 ELSE 60

OverallScoreOf(ps, ds, ts) == RoundDiv(ps + ds + ts, 3)

UnclampedScore(x) == x

ReturnedScore(x) == Clamp(x)

\* the last three digits of a grouped number
ThreeDigits(n) ==
  IF n < 10 THEN "00" \o ToString(n) ELSE IF n < 100 THEN "0" \o ToString(n) ELSE ToString(n)

\* Number.prototype.toLocaleString() of a positive integer, en-US grouping
RECURSIVE ToLocaleString(_)
ToLocaleString(n) ==
  IF n < 1000 THEN ToString(n)
  ELSE ToLocaleString(n \div 1000) \o "," \o ThreeDigits(n % 1000)

\* one entry of pros or cons: its text and the field it speaks about
Remark(about, text) == [about |-> about, text |-> text]

\* the pros array after filter(Boolean)
ProsOf(p) ==
  LET price == OrElse(p.totalPrice, 0)
      delivery == OrElse(p.deliveryDays, 999)
  IN  <<IF price > 0 THEN Remark("price", "Quoted price: $" \o ToLocaleString(price))
        ELSE Remark("price", "Price provided"),
        IF delivery < 999 THEN Remark("delivery", "Delivery in " \o ToString(delivery) \o " days")
        ELSE Remark("delivery", "Delivery timeline specified")>>
      \o (IF TruthyStr(p.warranty) THEN <<Remark("warranty", "Warranty: " \o p.warranty)>> ELSE <<>>)

\* the cons array after filter(Boolean)
ConsOf(p) ==
  (IF ~TruthyNum(p.totalPrice) THEN <<Remark("price", "Price not clearly specified")>> ELSE <<>>)
  \o (IF ~TruthyStr(p.warranty) THEN <<Remark("warranty", "No warranty information")>> ELSE <<>>)

ScoreOf(p, proposals) ==
  LET priceScore == RawPriceScore(p, proposals)
      deliveryScore == RawDeliveryScore(p)
      termsScore == TermsScoreOf(p)
      overallScore == OverallScoreOf(priceScore, deliveryScore, termsScore)
  IN  [vendorId |-> p.vendorId,
       vendorName |-> VendorNameOf(p.vendorId),
       priceScore |-> ReturnedScore(priceScore),
       deliveryScore |-> ReturnedScore(deliveryScore),
       termsScore |-> termsScore,
       overallScore |-> ReturnedScore(overallScore),
       pros |-> ProsOf(p),
       cons |-> ConsOf(p)]

MapScores(proposals) == [i \in 1..Len(proposals) |-> ScoreOf(proposals[i], proposals)]

\* Array.prototype.sort((a, b) => b.overallScore - a.overallScore): a stable
\* sort; x goes behind every element that does not compare after it
RECURSIVE InsertUnstable(_, _)
InsertUnstable(sorted, x) ==
  IF sorted = <<>> THEN <<x>>
  ELSE IF Head(sorted).overallScore > x.overallScore
       THEN <<Head(sorted)>> \o InsertUnstable(Tail(sorted), x)
       ELSE <<x>> \o sorted

RECURSIVE InsertByScore(_, _)
InsertByScore(sorted, x) ==
  IF sorted = <<>> THEN <<x>>
  ELSE IF Head(sorted).overallScore >= x.overallScore
       THEN <<Head(sorted)>> \o InsertByScore(Tail(sorted), x)
       ELSE <<x>> \o sorted

RECURSIVE SortByScore(_)
SortByScore(scores) ==
  IF scores = <<>> THEN <<>>
  ELSE InsertByScore(SortByScore(SubSeq(scores, 1, Len(scores) - 1)), scores[Len(scores)])

RecommendSecond(vendorScores) ==
  [recommendedVendorId |-> vendorScores[Len(vendorScores)].vendorId,
   recommendedVendorName |-> vendorScores[Len(vendorScores)].vendorName,
   alternativeOption |-> IF Len(vendorScores) > 1
                         THEN vendorScores[1].vendorName \o " as second choice" ELSE NULL]

RecommendationOf(vendorScores) ==
  [recommendedVendorId |-> vendorScores[1].vendorId,
   recommendedVendorName |-> vendorScores[1].vendorName,
   alternativeOption |-> IF Len(vendorScores) > 1
                         THEN vendorScores[2].vendorName \o " as second choice" ELSE NULL]

\* vendorScores[0] of an empty list is undefined: reading recommended.vendorId throws
FallbackCompareThrows(proposals) == Len(proposals) = 0

fallbackCompareProposals(proposals) ==
  LET vendorScores == SortByScore(MapScores(proposals))
  IN  [kind |-> "analysis",
       vendorScores |-> vendorScores,
       recommendation |-> RecommendationOf(vendorScores)]

\* ------------------------------------------------------------------ texts
Num(n) == [k |-> "num", n |-> n, w |-> ""]

Money(n) == [k |-> "money", n |-> n, w |-> ""]

Word(w) == [k |-> "word", n |-> 0, w |-> w]

\* the text "<n>GB RAM"
Ram(n) == [k |-> "ram", n |-> n, w |-> ""]

\* the text "<n> inch"
Inch(n) == [k |-> "inch", n |-> n, w |-> ""]

\* a value handed in where a string is expected (null, undefined, a number)
NotAString == [isString |-> FALSE, toks |-> <<>>]

Text(toks) == [isString |-> TRUE, toks |-> toks]

\* the characters of a token; words are in lower case and separated by one
\* space, without punctuation
RenderToken(t) ==
  CASE t.k = "num" -> ToString(t.n)
    [] t.k = "money" -> "$" \o ToString(t.n)
    [] t.k = "ram" -> ToString(t.n) \o "GB RAM"
    [] t.k = "inch" -> ToString(t.n) \o " inch"
    [] OTHER -> t.w

RECURSIVE Render(_)
Render(toks) ==
  IF toks = <<>> THEN ""
  ELSE IF Len(toks) = 1 THEN RenderToken(toks[1])
  ELSE RenderToken(toks[1]) \o " " \o Render(Tail(toks))

\* String.prototype.substring(0, end)
Substring(str, end) == IF Len(str) <= end THEN str ELSE SubSeq(str, 1, end)

\* the decimal digits of n start with the digits of p
RECURSIVE HasPrefix(_, _)
HasPrefix(n, p) == n = p \/ (n >= 10 /\ HasPrefix(n \div 10, p))

\* the kinds of token that end in decimal digits reachable by (\d+)
DigitKinds == {"num", "money"}

\* itemPatterns: <integer> <keyword>, one pattern per category
ItemPatterns ==
  << {"laptop", "laptops", "computer", "computers", "pc", "pcs", "machine", "machines"},
     {"monitor", "monitors", "display", "displays", "screen", "screens"},
     {"keyboard", "keyboards", "mice", "mouse"},
     {"chair", "chairs", "desk", "desks", "table", "tables"},
     {"phone", "phones", "mobile", "mobiles", "handset", "handsets"},
     {"printer", "printers", "scanner", "scanners"},
     {"server", "servers", "router", "routers", "switche", "switches"} >>

\* match[2].replace(/s$/, '') with its first character in upper case
ItemNameOf(w) ==
  CASE w \in {"laptop", "laptops"} -> "Laptop"
    [] w \in {"computer", "computers"} -> "Computer"
    [] w \in {"pc", "pcs"} -> "Pc"
    [] w \in {"machine", "machines"} -> "Machine"
    [] w \in {"monitor", "monitors"} -> "Monitor"
    [] w \in {"display", "displays"} -> "Display"
    [] w \in {"screen", "screens"} -> "Screen"
    [] w \in {"keyboard", "keyboards"} -> "Keyboard"
    [] w = "mice" -> "Mice"
    [] w = "mouse" -> "Mouse"
    [] w \in {"chair", "chairs"} -> "Chair"
    [] w \in {"desk", "desks"} -> "Desk"
    [] w \in {"table", "tables"} -> "Table"
    [] w \in {"phone", "phones"} -> "Phone"
    [] w \in {"mobile", "mobiles"} -> "Mobile"
    [] w \in {"handset", "handsets"} -> "Handset"
    [] w \in {"printer", "printers"} -> "Printer"
    [] w \in {"scanner", "scanners"} -> "Scanner"
    [] w \in {"server", "servers"} -> "Server"
    [] w \in {"router", "routers"} -> "Router"
    [] w \in {"switche", "switches"} -> "Switche"

\* positions where pattern.exec finds <integer> <keyword of the category>
MatchesOf(toks, kws) ==
  {i \in 1..(Len(toks) - 1) : toks[i].k \in DigitKinds /\ toks[i + 1].k = "word" /\ toks[i + 1].w \in kws}

RECURSIVE ItemsAt(_, _, _)
ItemsAt(toks, kws, from) ==
  IF \A i \in MatchesOf(toks, kws) : i < from THEN <<>>
  ELSE LET i == SetMin({j \in MatchesOf(toks, kws) : j >= from})
       IN  <<[name |-> ItemNameOf(toks[i + 1].w), quantity |-> toks[i].n, specifications |-> ""]>>
             \o ItemsAt(toks, kws, i + 2)

RECURSIVE ItemsFrom(_, _)
ItemsFrom(toks, c) ==
  IF c > Len(ItemPatterns) THEN <<>>
  ELSE ItemsAt(toks, ItemPatterns[c], 1) \o ItemsFrom(toks, c + 1)

\* line 107 without its placeholder: the item list as the patterns left it
ItemsAsExtracted(userInput, items) == items

ItemsOrPlaceholder(userInput, items) ==
  IF Len(items) > 0 THEN items
  ELSE <<[name |-> "Items as specified", quantity |-> 1, specifications |-> Substring(Render(userInput.toks), 100)]>>

\* /\$[\d,]+|\d+[\d,]*\s*(dollars|usd)/i, leftmost match
BudgetMatches(toks) ==
  {i \in 1..Len(toks) :
     \/ toks[i].k = "money"
     \/ /\ toks[i].k = "num" /\ i < Len(toks)
        /\ toks[i + 1].k = "word" /\ toks[i + 1].w \in {"dollars", "usd"}}

BudgetOf(toks) ==
  IF BudgetMatches(toks) = {} THEN None ELSE Some(toks[SetMin(BudgetMatches(toks))].n)

DeliveryUnits == {"day", "days", "week", "weeks"}

\* /(\d+)\s*(days?|weeks?)/i
DeliveryMatches(toks) ==
  {i \in 1..(Len(toks) - 1) :
     toks[i].k \in DigitKinds /\ toks[i + 1].k = "word" /\ toks[i + 1].w \in DeliveryUnits}

DeliveryDaysAt(toks, matches) ==
  IF matches = {} THEN None
  ELSE LET first == SetMin(matches)
       IN  IF toks[first + 1].w \in {"week", "weeks"}
           THEN Some(7 * toks[first].n) ELSE Some(toks[first].n)

\* /(\d+)\s*GB\s*RAM/i, leftmost match
RamMatches(toks) == {i \in 1..Len(toks) : toks[i].k = "ram"}

\* /(\d+)[- ]?(inch|")/i, leftmost match
ScreenMatches(toks) == {i \in 1..Len(toks) : toks[i].k = "inch"}

\* i.name.toLowerCase().includes('monitor')
IsMonitorItem(item) == item.name = "Monitor"

\* the RAM size lands on another item than items[0]
WithRamOnLast(toks, items) ==
  IF RamMatches(toks) # {} /\ Len(items) > 0
  THEN [items EXCEPT ![Len(items)].specifications = ToString(toks[SetMin(RamMatches(toks))].n) \o "GB RAM"]
  ELSE items

WithRam(toks, items) ==
  IF RamMatches(toks) # {} /\ Len(items) > 0
  THEN [items EXCEPT ![1].specifications = ToString(toks[SetMin(RamMatches(toks))].n) \o "GB RAM"]
  ELSE items

WithScreen(toks, items) ==
  LET monitors == {i \in 1..Len(items) : IsMonitorItem(items[i])}
  IN  IF ScreenMatches(toks) # {} /\ monitors # {}
      THEN [items EXCEPT ![SetMin(monitors)].specifications =
                            ToString(toks[SetMin(ScreenMatches(toks))].n) \o " inch"]
      ELSE items

\* input.includes('net <n>'): the digits after "net " only have to start with n
IncludesNet(toks, n) ==
  \E i \in 1..(Len(toks) - 1) :
    /\ toks[i].k = "word" /\ toks[i].w = "net"
    /\ toks[i + 1].k \in {"num", "ram", "inch"} /\ HasPrefix(toks[i + 1].n, n)

AdvanceWords == {"immediate", "immediately", "advance"}

PaymentTermsOf(toks) ==
  IF IncludesNet(toks, 30) THEN "Net 30"
  ELSE IF IncludesNet(toks, 60) THEN "Net 60"
  ELSE IF IncludesNet(toks, 15) THEN "Net 15" ELSE NULL

RFPPaymentTermsOf(toks) ==
  IF PaymentTermsOf(toks) # NULL THEN PaymentTermsOf(toks)
  ELSE IF \E i \in 1..Len(toks) : toks[i].k = "word" /\ toks[i].w \in AdvanceWords
       THEN "Advance Payment" ELSE NULL

\* /(\d+)\s*(year|month)s?\s*warranty/i
WarrantyMatches(toks) ==
  {i \in 1..(Len(toks) - 2) :
     /\ toks[i].k \in DigitKinds
     /\ toks[i + 1].k = "word" /\ toks[i + 1].w \in {"year", "years", "month", "months"}
     /\ toks[i + 2].k = "word" /\ toks[i + 2].w = "warranty"}

WarrantyTextOf(toks) ==
  IF WarrantyMatches(toks) = {} THEN NULL
  ELSE LET i == SetMin(WarrantyMatches(toks))
           unit == IF toks[i + 1].w \in {"year", "years"} THEN "year" ELSE "month"
       IN  ToString(toks[i].n) \o " " \o unit \o (IF toks[i].n > 1 THEN "s" ELSE "") \o " warranty"

\* items.map(i => i.name).join(' and ')
RECURSIVE JoinNames(_)
JoinNames(items) ==
  IF Len(items) = 1 THEN items[1].name
  ELSE items[1].name \o " and " \o JoinNames(Tail(items))

TitleOf(items) ==
  IF Len(items) > 0 THEN JoinNames(items) \o " Procurement" ELSE "Procurement Request"

\* userInput.toLowerCase() of a value that is not a string throws
FallbackParseRFPThrows(userInput) == ~userInput.isString

fallbackParseRFP(userInput) ==
  LET toks == userInput.toks
      items == WithScreen(toks, WithRam(toks, ItemsFrom(toks, 1)))
  IN  [kind |-> "rfp", hasItems |-> TRUE,
       title |-> TitleOf(items),
       description |-> Substring(Render(toks), 200),
       budget |-> BudgetOf(toks),
       currency |-> "USD",
       deliveryDays |-> DeliveryDaysAt(toks, DeliveryMatches(toks)),
       items |-> ItemsOrPlaceholder(userInput, items),
       paymentTerms |-> RFPPaymentTermsOf(toks),
       warranty |-> WarrantyTextOf(toks)]

\* ------------------------------------------------- fallbackParseProposal
\* /(\d+)\s*(days?|weeks?|business days?)/i
ProposalDeliveryMatches(toks) ==
  DeliveryMatches(toks) \cup
    {i \in 1..(Len(toks) - 2) :
       /\ toks[i].k \in DigitKinds
       /\ toks[i + 1].k = "word" /\ toks[i + 1].w = "business"
       /\ toks[i + 2].k = "word" /\ toks[i + 2].w \in {"day", "days"}}

FallbackParseProposalThrows(emailBody) == ~emailBody.isString

fallbackParseProposal(emailBody) ==
  LET toks == emailBody.toks
      prices == {toks[i].n : i \in {j \in 1..Len(toks) : toks[j].k = "money"}}
  IN  [kind |-> "proposal",
       totalPrice |-> IF prices = {} THEN None ELSE Some(SetMax(prices)),
       deliveryDays |-> DeliveryDaysAt(toks, ProposalDeliveryMatches(toks)),
       paymentTerms |-> PaymentTermsOf(toks),
       warranty |-> WarrantyTextOf(toks)]

\* --------------------------------------------------- fallbackGenerateEmail
NullRFP == [isNull |-> TRUE, title |-> NULL, hasItems |-> FALSE, items |-> <<>>]

RFPOf(title, items) == [isNull |-> FALSE, title |-> title, hasItems |-> TRUE, items |-> items]

\* the template line without its specifications
ItemLineWithoutSpecs(item) ==
  "  * " \o item.name \o ": Quantity " \o ToString(item.quantity)

\* one line of itemsList; "*" stands for the bullet character
ItemLineOf(item) ==
  "  * " \o item.name \o ": Quantity " \o ToString(item.quantity)
    \o (IF item.specifications # "" THEN " (" \o item.specifications \o ")" ELSE "")

PlaceholderLine == "  * As per requirements"

\* rfp.title of a null rfp throws
FallbackGenerateEmailThrows(rfp) == rfp.isNull

fallbackGenerateEmail(rfp, vendorName) ==
  [kind |-> "email",
   hasBody |-> TRUE,
   subject |-> rfp.title,
   greeting |-> vendorName,
   itemLines |-> IF rfp.hasItems /\ Len(rfp.items) > 0
                 THEN [i \in 1..Len(rfp.items) |-> ItemLineOf(rfp.items[i])]
                 ELSE <<PlaceholderLine>>]

\* ------------------------------------------------------------------ state
VARIABLES
  openai,        \* "null" | "client": the module level client, set once at load
  pc,            \* "idle" | "awaiting" | "returned" | "thrown"
  op,            \* the operation invoked
  userInput,     \* userInput of parseRFPFromNaturalLanguage, emailBody of parseVendorProposal
  rfp,           \* rfp of compareProposals and generateRFPEmail
  proposals,     \* proposals of compareProposals
  vendorName,    \* vendorName of generateRFPEmail
  netCalls,      \* openai.chat.completions.create calls issued by this invocation
  fallbackRuns,  \* fallback functions entered by this invocation
  result,        \* the envelope returned
  db,            \* the documents of the store: an RFP, its proposals, the vendors, another RFP
  req,           \* the controller request in progress and its local variables
  res,           \* the last HTTP response written
  log,           \* the calls started and settled by the send loop, in order
  calls,         \* the invocations in progress side by side, each with its own arguments
  requests,      \* the proposal and RFP requests in progress side by side, each with its locals
  inbox,         \* the messages of the INBOX, each with its \Seen flag
  received,      \* the number of proposal and RFP requests received so far
  imap           \* one fetchNewEmails call: its connection, its messages and its promise

vars == <<openai, pc, op, userInput, rfp, proposals, vendorName, netCalls, fallbackRuns, result,
          db, req, res, log, calls, requests, inbox, received, imap>>

\* the state of the controllers, which no operation of the service touches
Controller == <<db, req, res, log, calls, requests, inbox, received, imap>>

\* the requests that overlap and the mailbox they poll
Overlapping == <<requests, inbox, received, imap>>

Ops == {"parseRFPFromNaturalLanguage", "parseVendorProposal", "compareProposals", "generateRFPEmail"}

NoData == [kind |-> "none"]

NoEnvelope == [success |-> FALSE, usedFallback |-> FALSE, data |-> NoData, error |-> NULL]

Success(data) == [success |-> TRUE, usedFallback |-> FALSE, data |-> data, error |-> NULL]

FallbackSuccess(data) == [success |-> TRUE, usedFallback |-> TRUE, data |-> data, error |-> NULL]

Failure(message) == [success |-> FALSE, usedFallback |-> FALSE, data |-> NoData, error |-> message]

\* the arguments of an invocation
Arguments(text, r, ps, name) == [userInput |-> text, rfp |-> r, proposals |-> ps, vendorName |-> name]

\* one invocation: its operation, its own parameters, its position in the
\* function body, the envelope it returned and when it was entered and settled
Call(o, a) ==
  [op |-> o, args |-> a, pc |-> "idle", result |-> NoEnvelope, entered |-> 0, settled |-> 0]

\* a proposal as the comparison reads it
Proposal(v, price, days, warranty) ==
  [vendorId |-> v, totalPrice |-> price, deliveryDays |-> days, warranty |-> warranty]

\* ------------------------------------------------------------ controllers
NoScores == [has |-> FALSE, priceScore |-> 0, deliveryScore |-> 0, termsScore |-> 0, overallScore |-> 0]

NoStore ==
  [rfp |-> [exists |-> FALSE, status |-> "draft", sentAt |-> FALSE, selectedVendors |-> <<>>, doc |-> NullRFP],
   vendors |-> {},
   proposals |-> <<>>,
   other |-> [exists |-> FALSE, status |-> "draft", sentAt |-> FALSE, selectedVendors |-> <<>>, doc |-> NullRFP],
   otherProposals |-> <<>>]

NoRequest == [name |-> "none", pc |-> "idle", n |-> 0, vendors |-> <<>>, i |-> 0, sendResults |-> <<>>]

NoResponse == [status |-> 0, success |-> FALSE, message |-> NULL, data |-> NoData]

\* a fetchNewEmails call before imap.connect(): the events of the connection
\* so far, the promise, the search results, the state of each message's
\* parsing, the emails array and the timer
NoFetch ==
  [phase |-> "idle", ended |-> FALSE, failed |-> FALSE, promise |-> "pending", value |-> <<>>,
   results |-> {}, parsing |-> <<>>, emails |-> <<>>, timer |-> "none"]

\* res.status(code).json({success: false, message})
ErrorResponse(code, message) == [status |-> code, success |-> FALSE, message |-> message, data |-> NoData]

\* res.json({success: true, message, data})
OkResponse(message, data) == [status |-> 200, success |-> TRUE, message |-> message, data |-> data]

\* a stored proposal of the RFP
ProposalDoc(v, parsed, price, days, warranty) ==
  [vendorId |-> v, isParsingComplete |-> parsed, status |-> IF parsed THEN "parsed" ELSE "received",
   totalPrice |-> price, deliveryDays |-> days, warranty |-> warranty, scores |-> NoScores,
   emailBody |-> Text(<<>>)]

\* Proposal.find({rfpId}) without the isParsingComplete condition
AllDocs(store) == store.proposals

\* Proposal.find({rfpId, isParsingComplete: true}), in store order
ParsedDocs(store) == SelectSeq(store.proposals, LAMBDA d : d.isParsingComplete)

\* populate('vendorId', ...): the reference to a deleted vendor becomes null
Populate(store, d) ==
  Proposal(IF d.vendorId \in store.vendors THEN d.vendorId ELSE 0,
           d.totalPrice, d.deliveryDays, d.warranty)

\* proposals.length === 1
SingleProposal(parsed) == Len(parsed) = 1

\* the recommendation of lines 381-386
SingleRecommendation(d) ==
  [kind |-> "single", comparison |-> NULL,
   recommendation |-> [recommendedVendorId |-> d.vendorId,
                       recommendedVendorName |-> VendorNameOf(d.vendorId),
                       reasoning |-> "Only one proposal received"]]

\* the update document of lines 407-416
Evaluated(d, vendorScore) ==
  [d EXCEPT !.status = "evaluated",
            !.scores = [has |-> TRUE, priceScore |-> vendorScore.priceScore,
                        deliveryScore |-> vendorScore.deliveryScore,
                        termsScore |-> vendorScore.termsScore,
                        overallScore |-> vendorScore.overallScore]]

\* Proposal.findOneAndUpdate({rfpId, vendorId}, update): the first proposal
\* of that vendor. A vendorId that is undefined either matches nothing or is
\* dropped from the filter, which then matches the first proposal of the RFP.
FindOneAndUpdate(docs, vendorScore, dropped) ==
  LET hits == IF vendorScore.vendorId = 0
              THEN IF dropped THEN 1..Len(docs) ELSE {}
              ELSE {i \in 1..Len(docs) : docs[i].vendorId = vendorScore.vendorId}
  IN  IF hits = {} THEN docs
      ELSE [docs EXCEPT ![SetMin(hits)] = Evaluated(docs[SetMin(hits)], vendorScore)]

\* for (const vendorScore of comparisonResult.data.vendorScores) ...
RECURSIVE UpdateScores(_, _, _)
UpdateScores(docs, vendorScores, dropped) ==
  IF vendorScores = <<>> THEN docs
  ELSE UpdateScores(FindOneAndUpdate(docs, Head(vendorScores), dropped), Tail(vendorScores), dropped)

\* ----------------------------------------------------------------- inputs
Tokens == {Num(0), Num(5), Num(2), Money(900), Word("laptops"), Word("monitor"), Word("weeks"), Word("need")}

\* the request of the worked example: "We need 5 laptops with 16GB RAM and
\* 2 monitors 24 inch, budget $10000, delivery in 2 weeks, Net 30 payment,
\* 2 year warranty"
ScenarioText ==
  Text(<<Word("we"), Word("need"), Num(5), Word("laptops"), Word("with"), Ram(16), Word("and"),
         Num(2), Word("monitors"), Inch(24), Word("budget"), Money(10000), Word("delivery"),
         Word("in"), Num(2), Word("weeks"), Word("net"), Num(30), Word("payment"),
         Num(2), Word("year"), Word("warranty")>>)

\* a request without any quantity, longer than 100 characters
LongText ==
  Text(<<Word("we"), Word("need"), Word("several"), Word("laptops"), Word("with"), Ram(16),
         Word("and"), Word("some"), Word("monitors"), Inch(24), Word("budget"), Money(10000),
         Word("delivery"), Word("immediately"), Word("payment"), Word("in"), Word("advance"),
         Word("long"), Word("warranty")>>)

ExtractTokens ==
  {Num(0), Num(5), Word("laptops"), Word("monitors"), Word("keyboards"), Ram(16), Inch(24)}

EmailItems ==
  {[name |-> "Laptop", quantity |-> 5, specifications |-> "16GB RAM"],
   [name |-> "Laptop", quantity |-> 5, specifications |-> ""],
   [name |-> "Monitor", quantity |-> 2, specifications |-> "24 inch"],
   [name |-> "Chair", quantity |-> 1, specifications |-> ""],
   [name |-> "Items as specified", quantity |-> 1, specifications |-> "desks for the new office"]}

\* the parsed data a stored proposal can hold
DocFields ==
  {<<FALSE, None, None, NULL>>,
   <<TRUE, Some(5000), Some(14), "2 years warranty">>,
   <<TRUE, Some(8000), None, NULL>>}

\* the proposals of vendors 1..k, one each
DocsFrom(f, k) == [i \in 1..k |-> ProposalDoc(i, f[i][1], f[i][2], f[i][3], f[i][4])]

SomeItems == <<[name |-> "Laptop", quantity |-> 5, specifications |-> ""]>>

RFPs == {NullRFP, RFPOf("Laptop Procurement", SomeItems), RFPOf("Procurement Request", <<>>),
         [isNull |-> FALSE, title |-> "Procurement Request", hasItems |-> FALSE, items |-> <<>>]}

Prices == {None, Some(0), Some(-100), Some(5000), Some(6000), Some(8000)}

Deliveries == {None, Some(0), Some(-30), Some(14), Some(600), Some(1200)}

Warranties == {NULL, "", "2 years warranty"}

ProposalFields == Prices \X Deliveries \X Warranties

\* fewer values, for the longer lists that exercise the ranking
RankedFields == {None, Some(5000), Some(6000), Some(8000)} \X {None, Some(14)} \X Warranties

\* proposals of distinct vendors, the i-th one from vendor i
ProposalsFrom(f, k) == [i \in 1..k |-> Proposal(i, f[i][1], f[i][2], f[i][3])]

CoreProposalFields == {0, 1} \X {None, Some(5000), Some(8000)} \X {None, Some(14), Some(180)}

\* short lists, empty or with a vendor reference that no longer resolves
CoreProposalsFrom(f, k) == [i \in 1..k |-> Proposal(f[i][1] * i, f[i][2], f[i][3], NULL)]

\* what JSON.parse can make of the service's reply
ParsedResponses(o) ==
  CASE o = "parseRFPFromNaturalLanguage" ->
         {[kind |-> "rfp", hasItems |-> TRUE, items |-> SomeItems],
          [kind |-> "rfp", hasItems |-> TRUE, items |-> <<>>],
          [kind |-> "rfp", hasItems |-> FALSE, items |-> <<>>]}
    [] o = "parseVendorProposal" ->
         {[kind |-> "proposal", totalPrice |-> Some(5000), deliveryDays |-> Some(14),
           paymentTerms |-> "Net 30", warranty |-> NULL],
          [kind |-> "proposal", totalPrice |-> None, deliveryDays |-> None,
           paymentTerms |-> NULL, warranty |-> NULL]}
    [] o = "compareProposals" ->
         {[kind |-> "analysis", vendorScores |-> <<>>,
           recommendation |-> [recommendedVendorId |-> 1, recommendedVendorName |-> "Acme",
                               alternativeOption |-> NULL]],
          [kind |-> "analysis",
           vendorScores |-> <<[vendorId |-> 2, vendorName |-> "Bolt", priceScore |-> 90,
                               deliveryScore |-> 70, termsScore |-> 80, overallScore |-> 80]>>,
           recommendation |-> [recommendedVendorId |-> 2, recommendedVendorName |-> "Bolt",
                               alternativeOption |-> NULL]]}
    [] o = "generateRFPEmail" ->
         {[kind |-> "email", hasBody |-> TRUE, subject |-> "Request for Proposal",
           greeting |-> "Acme", itemLines |-> <<>>],
          [kind |-> "email", hasBody |-> FALSE, subject |-> NULL, greeting |-> NULL, itemLines |-> <<>>]}

FailureCauses == {"transport error", "Unexpected token in JSON"}

\* ------------------------------------------------------------------- Init
InitCore ==
  /\ openai \in {"null", "client"}
  /\ pc = "idle"
  /\ op \in Ops
  /\ IF op \in {"parseRFPFromNaturalLanguage", "parseVendorProposal"}
     THEN \/ userInput = NotAString
          \/ \E k \in 0..MaxTextLen : \E t \in [1..k -> Tokens] : userInput = Text(t)
     ELSE userInput = NotAString
  /\ IF op \in {"compareProposals", "generateRFPEmail"} THEN rfp \in RFPs ELSE rfp = NullRFP
  /\ IF op = "compareProposals"
     THEN \E k \in 0..MaxCoreProposals : \E f \in [1..k -> CoreProposalFields] :
            proposals = CoreProposalsFrom(f, k)
     ELSE proposals = <<>>
  /\ netCalls = 0
  /\ fallbackRuns = 0
  /\ result = NoEnvelope
  /\ vendorName = IF op = "generateRFPEmail" THEN "Acme" ELSE NULL
  /\ db = NoStore /\ req = NoRequest /\ res = NoResponse /\ log = <<>> /\ calls = <<>> /\ requests = <<>> /\ inbox = <<>> /\ received = 0 /\ imap = NoFetch

\* the extraction with the service not configured, over the request texts
InitExtract ==
  /\ openai = "null"
  /\ pc = "idle"
  /\ op = "parseRFPFromNaturalLanguage"
  /\ \/ userInput \in {ScenarioText, LongText}
     \/ \E k \in 0..MaxExtractLen : \E t \in [1..k -> ExtractTokens] : userInput = Text(t)
  /\ rfp = NullRFP
  /\ proposals = <<>>
  /\ netCalls = 0
  /\ fallbackRuns = 0
  /\ result = NoEnvelope
  /\ vendorName = NULL
  /\ db = NoStore /\ req = NoRequest /\ res = NoResponse /\ log = <<>> /\ calls = <<>> /\ requests = <<>> /\ inbox = <<>> /\ received = 0 /\ imap = NoFetch

\* the email template with the service not configured, over the item lists
InitEmail ==
  /\ openai = "null"
  /\ pc = "idle"
  /\ op = "generateRFPEmail"
  /\ userInput = NotAString
  /\ \/ rfp = [isNull |-> FALSE, title |-> "Procurement Request", hasItems |-> FALSE, items |-> <<>>]
     \/ \E k \in 0..MaxItems : \E t \in [1..k -> EmailItems] : rfp = RFPOf("Office Procurement", t)
  /\ proposals = <<>>
  /\ netCalls = 0
  /\ fallbackRuns = 0
  /\ result = NoEnvelope
  /\ vendorName = "Acme"
  /\ db = NoStore /\ req = NoRequest /\ res = NoResponse /\ log = <<>> /\ calls = <<>> /\ requests = <<>> /\ inbox = <<>> /\ received = 0 /\ imap = NoFetch

\* the compare handler over the stores: the RFP missing or present, up to
\* MaxDocs proposals, parsed or not, vendor 1 deleted (deleteVendor removes
\* the vendor and keeps its proposals) or not
InitCompareHandler ==
  /\ openai \in {"null", "client"}
  /\ pc = "idle" /\ op = "none"
  /\ userInput = NotAString /\ rfp = NullRFP /\ proposals = <<>> /\ vendorName = NULL
  /\ netCalls = 0 /\ fallbackRuns = 0 /\ result = NoEnvelope
  /\ \/ db = NoStore
     \/ \E k \in 0..MaxDocs : \E f \in [1..k -> DocFields] :
          \E gone \in {{}, {1}} : \E status \in {"sent", "responses_received"} :
            db = [NoStore EXCEPT
                    !.rfp = [exists |-> TRUE, status |-> status, sentAt |-> TRUE,
                             selectedVendors |-> <<>>,
                             doc |-> RFPOf("Laptop Procurement", SomeItems)],
                    !.vendors = (1..MaxDocs) \ gone,
                    !.proposals = DocsFrom(f, k)]
  /\ req = NoRequest /\ res = NoResponse /\ log = <<>> /\ calls = <<>> /\ requests = <<>> /\ inbox = <<>> /\ received = 0 /\ imap = NoFetch

\* the selected vendors, in both orders
SelectedLists ==
  {[i \in 1..k |-> i] : k \in 0..MaxVendors} \cup {[i \in 1..k |-> k + 1 - i] : k \in 0..MaxVendors}

\* the send handler over the stores: the RFP missing or present, up to
\* MaxVendors selected vendors, vendor 1 deleted or not
InitSendHandler ==
  /\ openai \in {"null", "client"}
  /\ pc = "idle" /\ op = "none"
  /\ userInput = NotAString /\ rfp = NullRFP /\ proposals = <<>> /\ vendorName = NULL
  /\ netCalls = 0 /\ fallbackRuns = 0 /\ result = NoEnvelope
  /\ \/ db = NoStore
     \/ \E selected \in SelectedLists : \E gone \in {{}, {1}} : \E status \in {"draft", "sent"} :
          db = [NoStore EXCEPT
                  !.rfp = [exists |-> TRUE, status |-> status, sentAt |-> (status = "sent"),
                           selectedVendors |-> selected,
                           doc |-> RFPOf("Laptop Procurement", SomeItems)],
                  !.vendors = (1..MaxVendors) \ gone]
  /\ req = NoRequest /\ res = NoResponse /\ log = <<>> /\ calls = <<>> /\ requests = <<>> /\ inbox = <<>> /\ received = 0 /\ imap = NoFetch

\* parameters an invocation does not read
Unused ==
  Arguments(Text(<<>>), RFPOf("Procurement Request", <<>>),
            <<Proposal(1, Some(5000), Some(14), NULL)>>, "Acme")

\* the invocations that run side by side
Invocations ==
  {Call("parseRFPFromNaturalLanguage", [Unused EXCEPT !.userInput = t]) :
     t \in {Text(<<Num(5), Word("laptops")>>), Text(<<Num(2), Word("monitors"), Inch(24)>>)}}
  \cup
  {Call("parseVendorProposal", [Unused EXCEPT !.userInput = t]) :
     t \in {Text(<<Money(900), Num(2), Word("weeks")>>), Text(<<Money(5000)>>)}}
  \cup
  {Call("compareProposals", [Unused EXCEPT !.rfp = RFPOf("Laptop Procurement", SomeItems),
                                          !.proposals = ps]) :
     ps \in {<<Proposal(1, Some(5000), Some(14), NULL), Proposal(2, Some(8000), None, "2 years warranty")>>,
             <<Proposal(1, Some(8000), Some(14), NULL), Proposal(2, Some(5000), Some(14), NULL)>>}}
  \cup
  {Call("generateRFPEmail", [Unused EXCEPT !.rfp = RFPOf("Laptop Procurement", SomeItems),
                                          !.vendorName = n]) :
     n \in {"Acme", "Bolt"}}

\* one to MaxCalls invocations, none entered yet
InitConcurrent ==
  /\ openai \in {"null", "client"}
  /\ pc = "idle" /\ op = "none"
  /\ userInput = NotAString /\ rfp = NullRFP /\ proposals = <<>> /\ vendorName = NULL
  /\ netCalls = 0 /\ fallbackRuns = 0 /\ result = NoEnvelope
  /\ db = NoStore /\ req = NoRequest /\ res = NoResponse /\ log = <<>>
  /\ \E k \in 1..MaxCalls : calls \in [1..k -> Invocations]
  /\ requests = <<>> /\ inbox = <<>> /\ received = 0 /\ imap = NoFetch

\* the comparison with the service not configured, over the larger proposal lists
InitCompare ==
  /\ openai = "null"
  /\ pc = "idle"
  /\ op = "compareProposals"
  /\ userInput = NotAString
  /\ rfp = RFPOf("Laptop Procurement", SomeItems)
  /\ \/ \E k \in 1..MaxProposals : \E f \in [1..k -> ProposalFields] : proposals = ProposalsFrom(f, k)
     \/ \E k \in 1..MaxRanked : \E f \in [1..k -> RankedFields] : proposals = ProposalsFrom(f, k)
  /\ netCalls = 0
  /\ fallbackRuns = 0
  /\ result = NoEnvelope
  /\ vendorName = NULL
  /\ db = NoStore /\ req = NoRequest /\ res = NoResponse /\ log = <<>> /\ calls = <<>> /\ requests = <<>> /\ inbox = <<>> /\ received = 0 /\ imap = NoFetch

\* ---------------------------------------------------------------- actions
Inputs == <<openai, op, userInput, rfp, proposals, vendorName>>

\* the fallback of operation o run on the invocation's arguments
FallbackThrowsOf(o, a) ==
  CASE o = "parseRFPFromNaturalLanguage" -> FallbackParseRFPThrows(a.userInput)
    [] o = "parseVendorProposal" -> FallbackParseProposalThrows(a.userInput)
    [] o = "compareProposals" -> FallbackCompareThrows(a.proposals)
    [] o = "generateRFPEmail" -> FallbackGenerateEmailThrows(a.rfp)

\* the fallback of operation o applied to the operation's own parameters
FallbackDataOf(o, a) ==
  CASE o = "parseRFPFromNaturalLanguage" -> fallbackParseRFP(a.userInput)
    [] o = "parseVendorProposal" -> fallbackParseProposal(a.userInput)
    [] o = "compareProposals" -> fallbackCompareProposals(a.proposals)
    [] o = "generateRFPEmail" -> fallbackGenerateEmail(a.rfp, a.vendorName)

FallbackThrows(o) == FallbackThrowsOf(o, Arguments(userInput, rfp, proposals, vendorName))

FallbackData(o) == FallbackDataOf(o, Arguments(userInput, rfp, proposals, vendorName))

FallbackAfterCall(o) ==
  /\ fallbackRuns' = fallbackRuns + 1
  /\ netCalls' = netCalls + 1
  /\ IF FallbackThrows(o)
     THEN pc' = "thrown" /\ result' = NoEnvelope
     ELSE pc' = "returned" /\ result' = FallbackSuccess(FallbackData(o))

\* the "if (!openai)" branch: the fallback outside any try block
FallbackImmediately(o) ==
  /\ fallbackRuns' = fallbackRuns + 1
  /\ netCalls' = netCalls
  /\ IF FallbackThrows(o)
     THEN pc' = "thrown" /\ result' = NoEnvelope
     ELSE pc' = "returned" /\ result' = FallbackSuccess(FallbackData(o))

\* openai.chat.completions.create(...) is issued and awaited
IssueCall ==
  /\ netCalls' = netCalls + 1
  /\ fallbackRuns' = fallbackRuns
  /\ pc' = "awaiting"
  /\ result' = result

\* an exception leaves the operation before the try block is entered
ThrowBeforeCall ==
  /\ pc' = "thrown"
  /\ UNCHANGED <<netCalls, fallbackRuns, result>>

parseRFPFromNaturalLanguage ==
  /\ pc = "idle" /\ op = "parseRFPFromNaturalLanguage"
  /\ IF openai = "null" THEN FallbackImmediately(op) ELSE IssueCall
  /\ UNCHANGED Inputs
  /\ UNCHANGED Controller

parseVendorProposal ==
  /\ pc = "idle" /\ op = "parseVendorProposal"
  /\ IF openai = "null" THEN FallbackImmediately(op) ELSE IssueCall
  /\ UNCHANGED Inputs
  /\ UNCHANGED Controller

\* proposals.map(p => p.vendorId._id ...) and rfp.title build the prompt
\* outside the try block
compareProposals ==
  /\ pc = "idle" /\ op = "compareProposals"
  /\ IF openai = "null" THEN FallbackImmediately(op)
     ELSE IF rfp.isNull \/ \E i \in 1..Len(proposals) : proposals[i].vendorId = 0
          THEN ThrowBeforeCall
          ELSE IssueCall
  /\ UNCHANGED Inputs
  /\ UNCHANGED Controller

\* rfp.title and rfp.items.map(...) build the prompt outside the try block
generateRFPEmail ==
  /\ pc = "idle" /\ op = "generateRFPEmail"
  /\ IF openai = "null" THEN FallbackImmediately(op)
     ELSE IF rfp.isNull \/ ~rfp.hasItems THEN ThrowBeforeCall ELSE IssueCall
  /\ UNCHANGED Inputs
  /\ UNCHANGED Controller

\* the awaited call resolves and JSON.parse accepts its content
GenerativeResolves ==
  /\ pc = "awaiting"
  /\ \E data \in ParsedResponses(op) : result' = Success(data)
  /\ pc' = "returned"
  /\ UNCHANGED <<netCalls, fallbackRuns>>
  /\ UNCHANGED Inputs
  /\ UNCHANGED Controller

\* only parseRFPFromNaturalLanguage wraps the fallback of its catch block
\* in a second try
CatchFallbackThrow(o, cause) ==
  IF o = "parseRFPFromNaturalLanguage"
  THEN pc' = "returned" /\ result' = Failure(cause)
  ELSE pc' = "thrown" /\ result' = NoEnvelope

CatchSurfacesError(o, cause) ==
  /\ pc' = "returned" /\ result' = Failure(cause)
  /\ fallbackRuns' = fallbackRuns
  /\ netCalls' = netCalls

CatchRetries(o, cause) ==
  /\ pc' = "awaiting" /\ result' = result
  /\ fallbackRuns' = fallbackRuns
  /\ netCalls' = netCalls + 1

\* catch (error) { ... fallback ... }
CatchBlock(o, cause) ==
  /\ IF FallbackThrows(o)
     THEN CatchFallbackThrow(o, cause)
     ELSE pc' = "returned" /\ result' = FallbackSuccess(FallbackData(o))
  /\ fallbackRuns' = fallbackRuns + 1
  /\ netCalls' = netCalls

\* the awaited call rejects, or JSON.parse throws
GenerativeRejects ==
  /\ pc = "awaiting"
  /\ \E cause \in FailureCauses : CatchBlock(op, cause)
  /\ UNCHANGED Inputs
  /\ UNCHANGED Controller

Next ==
  \/ parseRFPFromNaturalLanguage
  \/ parseVendorProposal
  \/ compareProposals
  \/ generateRFPEmail
  \/ GenerativeResolves
  \/ GenerativeRejects

Spec == InitCore /\ [][Next]_vars

\* the operation of the service is entered with its arguments
Invoke(o, r, ps, name) ==
  /\ op' = o /\ rfp' = r /\ proposals' = ps /\ vendorName' = name
  /\ pc' = "idle" /\ result' = NoEnvelope
  /\ UNCHANGED <<openai, userInput, netCalls, fallbackRuns, calls>>

\* the awaited operation has settled and its envelope has been taken
Settled ==
  /\ op' = "none" /\ pc' = "idle" /\ result' = NoEnvelope
  /\ UNCHANGED <<openai, userInput, rfp, proposals, vendorName, netCalls, fallbackRuns, calls>>

Service ==
  <<openai, pc, op, userInput, rfp, proposals, vendorName, netCalls, fallbackRuns, result, calls>>

\* the handler answers and ends
Answer(name, response) ==
  /\ res' = response
  /\ req' = [NoRequest EXCEPT !.name = name, !.n = req.n + 1]

\* GET /api/rfps/:id/compare, up to the call of the comparison engine
rfpController_compareProposals ==
  /\ req.pc = "idle" /\ req.n < MaxRequests
  /\ LET parsed == ParsedDocs(db)
         name == "compareProposals"
     IN  IF ~db.rfp.exists
         THEN Answer(name, ErrorResponse(404, "RFP not found")) /\ UNCHANGED Service
         ELSE IF Len(parsed) = 0
         THEN /\ Answer(name, ErrorResponse(400, "No parsed proposals available for comparison"))
              /\ UNCHANGED Service
         ELSE IF SingleProposal(parsed)
         THEN /\ IF parsed[1].vendorId \in db.vendors
                 THEN Answer(name, OkResponse("Only one proposal available",
                                              SingleRecommendation(parsed[1])))
                 ELSE Answer(name, ErrorResponse(500, "Error comparing proposals"))
              /\ UNCHANGED Service
         ELSE /\ Invoke("compareProposals", db.rfp.doc,
                        [i \in 1..Len(parsed) |-> Populate(db, parsed[i])], NULL)
              /\ req' = [NoRequest EXCEPT !.name = name, !.pc = "awaitingEngine", !.n = req.n + 1]
              /\ res' = NoResponse
  /\ UNCHANGED <<db, log>>
  /\ UNCHANGED Overlapping

\* the rest of the handler, once aiService.compareProposals has settled
compareProposalsSettled ==
  /\ req.name = "compareProposals" /\ req.pc = "awaitingEngine"
  /\ pc \in {"returned", "thrown"}
  /\ req' = [req EXCEPT !.pc = "idle"]
  /\ IF pc = "thrown"
     THEN res' = ErrorResponse(500, "Error comparing proposals") /\ db' = db
     ELSE IF ~result.success
     THEN res' = ErrorResponse(500, "Failed to compare proposals") /\ db' = db
     ELSE /\ res' = OkResponse(NULL, result.data)
          /\ \E dropped \in BOOLEAN :
               db' = [db EXCEPT !.proposals = UpdateScores(@, result.data.vendorScores, dropped),
                                !.rfp.status = "evaluated"]
  /\ Settled
  /\ log' = log
  /\ UNCHANGED Overlapping

\* populate('selectedVendors', ...): the vendors that still exist, in order
SelectedVendors(store) == SelectSeq(store.rfp.selectedVendors, LAMBDA v : v \in store.vendors)

\* an event of the send loop
Event(e, v, ok) == [e |-> e, v |-> v, ok |-> ok]

\* one entry of sendResults
SendResult(v, sent) == [vendorId |-> v, vendorName |-> VendorNameOf(v), sent |-> sent]

\* the loop ends at the first vendor whose email was not sent
ContinueIfSent(sent) == sent

\* the for loop has no break and no return: it goes on after every outcome
Continue(sent) == TRUE

\* POST /api/rfps/:id/send, up to the first generateRFPEmail call
rfpController_sendRFPToVendors ==
  /\ req.pc = "idle" /\ req.n < MaxRequests
  /\ LET name == "sendRFPToVendors"
         vendors == SelectedVendors(db)
     IN  IF ~db.rfp.exists
         THEN Answer(name, ErrorResponse(404, "RFP not found")) /\ UNCHANGED Service /\ log' = <<>>
         ELSE IF Len(vendors) = 0
         THEN /\ Answer(name, ErrorResponse(400, "No vendors selected for this RFP"))
              /\ UNCHANGED Service /\ log' = <<>>
         ELSE /\ Invoke("generateRFPEmail", db.rfp.doc, <<>>, VendorNameOf(vendors[1]))
              /\ req' = [NoRequest EXCEPT !.name = name, !.pc = "awaitingEmailContent",
                                          !.n = req.n + 1, !.vendors = vendors, !.i = 1]
              /\ res' = NoResponse
              /\ log' = <<Event("generate", vendors[1], TRUE)>>
  /\ db' = db
  /\ UNCHANGED Overlapping

\* the loop body is over for vendor req.i with the entry pushed: the next
\* vendor's content is requested, or lines 300-313 end the request
NextVendorOrFinish(entry, events) ==
  LET results == Append(req.sendResults, entry)
  IN  IF req.i < Len(req.vendors) /\ Continue(entry.sent)
      THEN /\ Invoke("generateRFPEmail", db.rfp.doc, <<>>, VendorNameOf(req.vendors[req.i + 1]))
           /\ req' = [req EXCEPT !.pc = "awaitingEmailContent", !.i = @ + 1, !.sendResults = results]
           /\ log' = log \o events \o <<Event("generate", req.vendors[req.i + 1], TRUE)>>
           /\ UNCHANGED <<db, res>>
      ELSE /\ Settled
           /\ req' = [req EXCEPT !.pc = "idle", !.sendResults = results]
           /\ log' = log \o events
           /\ db' = [db EXCEPT !.rfp.status = "sent", !.rfp.sentAt = TRUE]
           /\ res' = OkResponse("RFP sent to vendors", [kind |-> "sent", results |-> results])

\* aiService.generateRFPEmail has settled for vendor req.i
emailContentSettled ==
  /\ req.name = "sendRFPToVendors" /\ req.pc = "awaitingEmailContent"
  /\ pc \in {"returned", "thrown"}
  /\ LET v == req.vendors[req.i]
     IN  IF pc = "thrown"
         THEN /\ res' = ErrorResponse(500, "Error sending RFP")
              /\ req' = [req EXCEPT !.pc = "idle"]
              /\ Settled /\ UNCHANGED <<db, log>>
         ELSE IF result.success
         THEN /\ req' = [req EXCEPT !.pc = IF result.data.hasBody THEN "awaitingSend"
                                            ELSE "awaitingSendWithoutBody"]
              /\ log' = log \o <<Event("generated", v, TRUE), Event("send", v, TRUE)>>
              /\ Settled /\ UNCHANGED <<db, res>>
         ELSE NextVendorOrFinish(SendResult(v, FALSE), <<Event("generated", v, FALSE)>>)
  /\ UNCHANGED Overlapping

\* emailService.sendEmail has settled for vendor req.i: transporter.sendMail
\* resolved, or it rejected, or body.replace threw, inside the try block
sendEmailSettled ==
  /\ req.name = "sendRFPToVendors" /\ req.pc \in {"awaitingSend", "awaitingSendWithoutBody"}
  /\ \E sent \in BOOLEAN :
       /\ req.pc = "awaitingSendWithoutBody" => ~sent
       /\ NextVendorOrFinish(SendResult(req.vendors[req.i], sent),
                             <<Event("sent", req.vendors[req.i], sent)>>)
  /\ UNCHANGED Overlapping

\* the number of function entries and settlements so far
Clock == SetMax({0} \cup {calls[c].entered : c \in 1..Len(calls)}
                    \cup {calls[c].settled : c \in 1..Len(calls)})

\* the parameters of whichever invocation was entered last, as a buffer at
\* module level would hold them
LatestArguments(c) ==
  calls[CHOOSE d \in 1..Len(calls) : \A e \in 1..Len(calls) : calls[e].entered <= calls[d].entered].args

\* the catch block reads the parameters of its own invocation
ArgumentsAfterAwait(c) == calls[c].args

\* the exceptions thrown while the prompt is built, before the try block
ThrowsBeforeCall(o, a) ==
  CASE o = "compareProposals" ->
         a.rfp.isNull \/ \E i \in 1..Len(a.proposals) : a.proposals[i].vendorId = 0
    [] o = "generateRFPEmail" -> a.rfp.isNull \/ ~a.rfp.hasItems
    [] OTHER -> FALSE

\* invocation c runs from its entry to its first await, or to its end when
\* the service is not configured
Enter(c) ==
  /\ calls[c].pc = "idle"
  /\ LET o == calls[c].op
         a == calls[c].args
         now == Clock + 1
     IN  calls' = [calls EXCEPT ![c] =
           IF openai = "null"
           THEN IF FallbackThrowsOf(o, a)
                THEN [@ EXCEPT !.pc = "thrown", !.entered = now, !.settled = now]
                ELSE [@ EXCEPT !.pc = "returned", !.entered = now, !.settled = now,
                               !.result = FallbackSuccess(FallbackDataOf(o, a))]
           ELSE IF ThrowsBeforeCall(o, a)
                THEN [@ EXCEPT !.pc = "thrown", !.entered = now, !.settled = now]
                ELSE [@ EXCEPT !.pc = "awaiting", !.entered = now]]
  /\ UNCHANGED <<openai, pc, op, userInput, rfp, proposals, vendorName, netCalls, fallbackRuns, result, db, req, res, log, requests, inbox, received, imap>>

\* the awaited call of invocation c resolves and JSON.parse accepts it
Resolves(c) ==
  /\ calls[c].pc = "awaiting"
  /\ \E data \in ParsedResponses(calls[c].op) :
       calls' = [calls EXCEPT ![c] = [@ EXCEPT !.pc = "returned", !.settled = Clock + 1,
                                               !.result = Success(data)]]
  /\ UNCHANGED <<openai, pc, op, userInput, rfp, proposals, vendorName, netCalls, fallbackRuns, result, db, req, res, log, requests, inbox, received, imap>>

\* the awaited call of invocation c rejects and its catch block runs
Rejects(c) ==
  /\ calls[c].pc = "awaiting"
  /\ LET o == calls[c].op
         a == ArgumentsAfterAwait(c)
     IN  \E cause \in FailureCauses :
           calls' = [calls EXCEPT ![c] =
             IF FallbackThrowsOf(o, a)
             THEN IF o = "parseRFPFromNaturalLanguage"
                  THEN [@ EXCEPT !.pc = "returned", !.settled = Clock + 1, !.result = Failure(cause)]
                  ELSE [@ EXCEPT !.pc = "thrown", !.settled = Clock + 1]
             ELSE [@ EXCEPT !.pc = "returned", !.settled = Clock + 1,
                            !.result = FallbackSuccess(FallbackDataOf(o, a))]]
  /\ UNCHANGED <<openai, pc, op, userInput, rfp, proposals, vendorName, netCalls, fallbackRuns, result, db, req, res, log, requests, inbox, received, imap>>

NextCompare == compareProposals

SpecCompare == InitCompare /\ [][NextCompare]_vars

NextExtract == parseRFPFromNaturalLanguage

SpecExtract == InitExtract /\ [][NextExtract]_vars

NextEmail == generateRFPEmail

SpecEmail == InitEmail /\ [][NextEmail]_vars

NextCompareHandler ==
  \/ rfpController_compareProposals
  \/ compareProposalsSettled
  \/ compareProposals
  \/ GenerativeResolves
  \/ GenerativeRejects

SpecCompareHandler == InitCompareHandler /\ [][NextCompareHandler]_vars

NextSendHandler ==
  \/ rfpController_sendRFPToVendors
  \/ emailContentSettled
  \/ sendEmailSettled
  \/ generateRFPEmail
  \/ GenerativeResolves
  \/ GenerativeRejects

SpecSendHandler == InitSendHandler /\ [][NextSendHandler]_vars

NextConcurrent ==
  \/ \E c \in 1..Len(calls) : Enter(c)
  \/ \E c \in 1..Len(calls) : Resolves(c)
  \/ \E c \in 1..Len(calls) : Rejects(c)

SpecConcurrent == InitConcurrent /\ [][NextConcurrent]_vars

\* ------------------------------------------- proposal and RFP requests
\* RFP.findById(r)
RFPById(store, r) == IF r = 1 THEN store.rfp ELSE store.other

\* Proposal.find({rfpId: r}), in store order
ProposalsOf(store, r) == IF r = 1 THEN store.proposals ELSE store.otherProposals

\* the store with the document of RFP r replaced
WithRFP(store, r, doc) ==
  IF r = 1 THEN [store EXCEPT !.rfp = doc] ELSE [store EXCEPT !.other = doc]

\* the store with the proposals of RFP r replaced
WithProposals(store, r, docs) ==
  IF r = 1 THEN [store EXCEPT !.proposals = docs] ELSE [store EXCEPT !.otherProposals = docs]

\* the email address stored with a vendor
VendorEmailOf(v) == <<"Sales@Acme.com", "bids@bolt.io", "core@core.io", "dyna@dyna.io", "echo@echo.io">>[v]

\* String.prototype.toLowerCase() over the addresses that occur
ToLowerCase(address) ==
  IF address \in {"Sales@Acme.com", "SALES@ACME.COM"} THEN "sales@acme.com" ELSE address

\* one message of the INBOX
Message(fromAddress, seen) == [fromAddress |-> fromAddress, seen |-> seen]

\* a request that has not been received
NoCall ==
  [name |-> "none", pc |-> "idle", rfpId |-> 0, vendorId |-> 0, isArray |-> FALSE, vendorIds |-> <<>>,
   text |-> NotAString, status |-> "draft", vendors |-> <<>>, emails |-> <<>>, i |-> 0,
   newProposals |-> <<>>, doc |-> 0, data |-> NoData, res |-> NoResponse]

\* res.status(201).json({success: true, message, data})
CreatedResponse(message, data) == [OkResponse(message, data) EXCEPT !.status = 201]

\* the handler of request q answers and ends
Answered(q, response) == [q EXCEPT !.pc = "idle", !.res = response]

\* populate('selectedVendors', ...) of RFP document doc
SelectedOf(store, doc) == SelectSeq(doc.selectedVendors, LAMBDA v : v \in store.vendors)

\* Proposal.findOne({rfpId: r, vendorId: v}) finds a document
ExistingProposal(store, r, v) ==
  \E i \in 1..Len(ProposalsOf(store, r)) : ProposalsOf(store, r)[i].vendorId = v

\* new Proposal({..., emailBody, status: 'received'})
ReceivedProposal(v, emailBody) ==
  [ProposalDoc(v, FALSE, None, None, NULL) EXCEPT !.emailBody = emailBody]

\* proposal.parsedData = data; isParsingComplete = true; status = 'parsed'
Parsed(d, data) ==
  [d EXCEPT !.isParsingComplete = TRUE, !.status = "parsed", !.totalPrice = data.totalPrice,
            !.deliveryDays = data.deliveryDays, !.warranty = data.warranty]

\* how an operation of the service can settle for arguments a: it throws, or
\* returns the envelope of the generative answer or of its fallback
ServiceOutcomes(o, a) ==
  LET fallback ==
        IF FallbackThrowsOf(o, a)
        THEN IF o = "parseRFPFromNaturalLanguage"
             THEN {[thrown |-> FALSE, result |-> Failure(cause)] : cause \in FailureCauses}
             ELSE {[thrown |-> TRUE, result |-> NoEnvelope]}
        ELSE {[thrown |-> FALSE, result |-> FallbackSuccess(FallbackDataOf(o, a))]}
  IN  IF openai = "null"
      THEN IF FallbackThrowsOf(o, a)
           THEN {[thrown |-> TRUE, result |-> NoEnvelope]}
           ELSE {[thrown |-> FALSE, result |-> FallbackSuccess(FallbackDataOf(o, a))]}
      ELSE IF ThrowsBeforeCall(o, a)
           THEN {[thrown |-> TRUE, result |-> NoEnvelope]}
           ELSE fallback \cup {[thrown |-> FALSE, result |-> Success(data)] : data \in ParsedResponses(o)}

\* rfp.save() after rfp.status = status: the update of the one modified
\* path; when the document has been deleted meanwhile nothing is written
SaveStatus(store, r, status) ==
  IF RFPById(store, r).exists
  THEN WithRFP(store, r, [RFPById(store, r) EXCEPT !.status = status])
  ELSE store

\* the answers after document.save(): saving a document that has been
\* deleted meanwhile writes nothing and, depending on the mongoose version,
\* is silent or throws into the handler's catch block
AfterSave(present, ok, error) == IF present THEN {ok} ELSE {ok, error}

\* what the requests leave alone
Aside ==
  <<openai, pc, op, userInput, rfp, proposals, vendorName, netCalls, fallbackRuns, result,
    calls, req, log, received, imap>>

\* the store changes to store2 and request c to q; a request that has
\* answered leaves its response and frees its place
Becomes(c, q, store2) ==
  /\ requests' = [requests EXCEPT ![c] = IF q.pc = "idle" THEN NoCall ELSE q]
  /\ res' = IF q.pc = "idle" THEN q.res ELSE res
  /\ db' = store2

\* POST /api/proposals
proposalController_createProposal(c) ==
  LET q == requests[c]
      r == q.rfpId
      v == q.vendorId
  IN  /\ q.name = "createProposal" /\ q.pc # "idle"
      /\ CASE q.pc = "RFP.findById" ->
                IF r = 0 \/ v = 0
                THEN Becomes(c, Answered(q, ErrorResponse(400, "rfpId and vendorId are required")), db)
                ELSE IF ~RFPById(db, r).exists
                THEN Becomes(c, Answered(q, ErrorResponse(404, "RFP not found")), db)
                ELSE Becomes(c, [q EXCEPT !.pc = "Vendor.findById", !.status = RFPById(db, r).status], db)
           [] q.pc = "Vendor.findById" ->
                IF v \notin db.vendors
                THEN Becomes(c, Answered(q, ErrorResponse(404, "Vendor not found")), db)
                ELSE Becomes(c, [q EXCEPT !.pc = "Proposal.findOne"], db)
           [] q.pc = "Proposal.findOne" ->
                IF ExistingProposal(db, r, v)
                THEN Becomes(c, Answered(q, ErrorResponse(400,
                                  "A proposal from this vendor already exists for this RFP")), db)
                ELSE Becomes(c, [q EXCEPT !.pc = "proposal.save"], db)
           [] q.pc = "proposal.save" ->
                LET saved == WithProposals(db, r, Append(ProposalsOf(db, r), ReceivedProposal(v, q.text)))
                    created == [q EXCEPT !.newProposals = <<v>>]
                IN  IF q.status = "sent"
                    THEN Becomes(c, [created EXCEPT !.pc = "rfp.save"], saved)
                    ELSE Becomes(c, Answered(created, CreatedResponse("Proposal created successfully",
                                                                       NoData)), saved)
           [] q.pc = "rfp.save" ->
                \E response \in AfterSave(RFPById(db, r).exists,
                                          CreatedResponse("Proposal created successfully", NoData),
                                          ErrorResponse(500, "Error creating proposal")) :
                  Becomes(c, Answered(q, response), SaveStatus(db, r, "responses_received"))
      /\ UNCHANGED Aside /\ inbox' = inbox

\* POST /api/proposals/simulate
proposalController_simulateProposal(c) ==
  LET q == requests[c]
      r == q.rfpId
      v == q.vendorId
      created == CreatedResponse("Proposal simulated and parsed successfully", NoData)
      failed == ErrorResponse(500, "Error simulating proposal")
      \* lines 413-417: the RFP is saved only when it was loaded as 'sent'
      afterParse == IF q.status = "sent" THEN [q EXCEPT !.pc = "rfp.save"] ELSE Answered(q, created)
  IN  /\ q.name = "simulateProposal" /\ q.pc # "idle"
      /\ CASE q.pc = "RFP.findById" ->
                IF r = 0 \/ v = 0 \/ (q.text.isString /\ q.text.toks = <<>>)
                THEN Becomes(c, Answered(q, ErrorResponse(400,
                                  "rfpId, vendorId, and proposalText are required")), db)
                \* a missing RFP is answered after the vendor has been looked up
                ELSE Becomes(c, [q EXCEPT !.pc = "Vendor.findById",
                                          !.status = IF RFPById(db, r).exists
                                                     THEN RFPById(db, r).status ELSE NULL], db)
           [] q.pc = "Vendor.findById" ->
                IF q.status = NULL \/ v \notin db.vendors
                THEN Becomes(c, Answered(q, ErrorResponse(404, "RFP or Vendor not found")), db)
                ELSE Becomes(c, [q EXCEPT !.pc = "proposal.save"], db)
           [] q.pc = "proposal.save" ->
                Becomes(c, [q EXCEPT !.pc = "parseVendorProposal", !.newProposals = <<v>>,
                                     !.doc = Len(ProposalsOf(db, r)) + 1],
                        WithProposals(db, r, Append(ProposalsOf(db, r), ReceivedProposal(v, q.text))))
           [] q.pc = "parseVendorProposal" ->
                \E outcome \in ServiceOutcomes("parseVendorProposal",
                                               Arguments(q.text, NullRFP, <<>>, NULL)) :
                  IF outcome.thrown
                  THEN Becomes(c, Answered(q, failed), db)
                  ELSE IF outcome.result.success
                  THEN Becomes(c, [q EXCEPT !.pc = "proposal.save parsed",
                                            !.data = outcome.result.data], db)
                  ELSE Becomes(c, afterParse, db)
           [] q.pc = "proposal.save parsed" ->
                IF q.doc = 0
                THEN \E thrown \in BOOLEAN :
                       Becomes(c, IF thrown THEN Answered(q, failed) ELSE afterParse, db)
                ELSE Becomes(c, afterParse,
                             WithProposals(db, r, [ProposalsOf(db, r) EXCEPT
                                                     ![q.doc] = Parsed(@, q.data)]))
           [] q.pc = "rfp.save" ->
                \E response \in AfterSave(RFPById(db, r).exists, created, failed) :
                  Becomes(c, Answered(q, response), SaveStatus(db, r, "responses_received"))
      /\ UNCHANGED Aside /\ inbox' = inbox

\* POST /api/proposals/:id/parse; the id is the proposal's place among the
\* proposals of RFP q.rfpId, 0 when the proposal has been deleted
proposalController_parseProposal(c) ==
  LET q == requests[c]
      r == q.rfpId
      docs == ProposalsOf(db, r)
      failed == ErrorResponse(500, "Error parsing proposal")
  IN  /\ q.name = "parseProposal" /\ q.pc # "idle"
      /\ CASE q.pc = "Proposal.findById" ->
                IF q.doc \notin 1..Len(docs)
                THEN Becomes(c, Answered(q, ErrorResponse(404, "Proposal not found")), db)
                ELSE IF docs[q.doc].emailBody.isString /\ docs[q.doc].emailBody.toks = <<>>
                THEN Becomes(c, Answered(q, ErrorResponse(400, "No email body to parse")), db)
                ELSE Becomes(c, [q EXCEPT !.pc = "parseVendorProposal",
                                          !.text = docs[q.doc].emailBody], db)
           [] q.pc = "parseVendorProposal" ->
                \E outcome \in ServiceOutcomes("parseVendorProposal",
                                               Arguments(q.text, NullRFP, <<>>, NULL)) :
                  IF outcome.thrown
                  THEN Becomes(c, Answered(q, failed), db)
                  ELSE IF ~outcome.result.success
                  THEN Becomes(c, Answered(q, ErrorResponse(500, "Failed to parse proposal")), db)
                  ELSE Becomes(c, [q EXCEPT !.pc = "proposal.save", !.data = outcome.result.data], db)
           [] q.pc = "proposal.save" ->
                IF q.doc = 0
                THEN \E response \in {failed, OkResponse("Proposal parsed successfully", NoData)} :
                       Becomes(c, Answered(q, response), db)
                ELSE Becomes(c, Answered(q, OkResponse("Proposal parsed successfully", NoData)),
                             WithProposals(db, r, [docs EXCEPT ![q.doc] = Parsed(@, q.data)]))
      /\ UNCHANGED Aside /\ inbox' = inbox

\* the lists a fetch can resolve with: the messages whose parsing completed
\* before the timer fired, in the order in which their parsing completed
RECURSIVE Arrangements(_)
Arrangements(S) ==
  {<<>>} \cup UNION {{<<m>> \o rest : rest \in Arrangements(S \ {m})} : m \in S}

\* the places of the unseen messages
Unseen(box) == {m \in 1..Len(box) : ~box[m].seen}

\* fetch(results, {markSeen: true})
MarkSeen(box) == [m \in 1..Len(box) |-> [box[m] EXCEPT !.seen = TRUE]]

\* emails.filter(... vendorEmails.some(ve => ve.toLowerCase() === fromEmail))
FromKnownVendors(emails, vendors) ==
  SelectSeq(emails, LAMBDA e : \E i \in 1..Len(vendors) :
                                 ToLowerCase(VendorEmailOf(vendors[i])) = ToLowerCase(e))

\* rfp.selectedVendors.find(v => v.email.toLowerCase() === ...): the first
\* selected vendor with that address, 0 when there is none
VendorOfEmail(vendors, e) ==
  LET hits == {i \in 1..Len(vendors) : ToLowerCase(VendorEmailOf(vendors[i])) = ToLowerCase(e)}
  IN  IF hits = {} THEN 0 ELSE vendors[SetMin(hits)]

\* the vendor already has a proposal and the reply is skipped
SkipRegardless(existing) == FALSE

\* if (!existingProposal): a reply of a vendor with a proposal is skipped
SkipIfExisting(existing) == existing

\* POST /api/proposals/check-emails
proposalController_checkEmails(c) ==
  LET q == requests[c]
      r == q.rfpId
      answer == OkResponse("Found emails, created new proposals",
                           [kind |-> "checked", emailsFound |-> Len(q.emails),
                            proposalsCreated |-> Len(q.newProposals)])
      \* the loop is over for email q.i with `created` the proposals created so far
      Onward(created) ==
        IF q.i < Len(q.emails)
        THEN [q EXCEPT !.pc = "Proposal.findOne", !.i = @ + 1, !.newProposals = created]
        ELSE IF Len(created) > 0 /\ q.status = "sent"
        THEN [q EXCEPT !.pc = "rfp.save", !.newProposals = created]
        ELSE Answered([q EXCEPT !.newProposals = created],
                      [answer EXCEPT !.data.proposalsCreated = Len(created)])
  IN  /\ q.name = "checkEmails" /\ q.pc # "idle"
      /\ CASE q.pc = "RFP.findById" ->
                /\ inbox' = inbox
                /\ IF ~RFPById(db, r).exists
                   THEN Becomes(c, Answered(q, ErrorResponse(404, "RFP not found")), db)
                   ELSE Becomes(c, [q EXCEPT !.pc = "checkForVendorResponses",
                                             !.status = RFPById(db, r).status,
                                             !.vendors = SelectedOf(db, RFPById(db, r))], db)
           [] q.pc = "checkForVendorResponses" ->
                \/ \* fetchNewEmails rejects, before or after the messages were fetched
                   /\ inbox' \in {inbox, MarkSeen(inbox)}
                   /\ Becomes(c, Answered(q, ErrorResponse(500, "Failed to check emails")), db)
                \/ \E order \in Arrangements(Unseen(inbox)) :
                     LET emails == [m \in 1..Len(order) |-> inbox[order[m]].fromAddress]
                         responses == FromKnownVendors(emails, q.vendors)
                         found == [q EXCEPT !.emails = responses]
                     IN  /\ inbox' = MarkSeen(inbox)
                         /\ IF responses = <<>>
                            THEN Becomes(c, Answered(found, [answer EXCEPT !.data.emailsFound = 0]), db)
                            ELSE Becomes(c, [found EXCEPT !.pc = "Proposal.findOne", !.i = 1], db)
           [] q.pc = "Proposal.findOne" ->
                /\ inbox' = inbox
                /\ IF SkipIfExisting(ExistingProposal(db, r, VendorOfEmail(q.vendors, q.emails[q.i])))
                   THEN Becomes(c, Onward(q.newProposals), db)
                   ELSE Becomes(c, [q EXCEPT !.pc = "proposal.save"], db)
           [] q.pc = "proposal.save" ->
                LET v == VendorOfEmail(q.vendors, q.emails[q.i])
                IN  /\ inbox' = inbox
                    /\ Becomes(c, Onward(Append(q.newProposals, v)),
                               WithProposals(db, r, Append(ProposalsOf(db, r),
                                                           ReceivedProposal(v, Text(<<Word("quote")>>)))))
           [] q.pc = "rfp.save" ->
                /\ inbox' = inbox
                /\ \E response \in AfterSave(RFPById(db, r).exists, answer,
                                             ErrorResponse(500, "Error checking emails")) :
                     Becomes(c, Answered(q, response), SaveStatus(db, r, "responses_received"))
      /\ UNCHANGED Aside

\* DELETE /api/rfps/:id
rfpController_deleteRFP(c) ==
  LET q == requests[c]
      r == q.rfpId
  IN  /\ q.name = "deleteRFP" /\ q.pc # "idle"
      /\ CASE q.pc = "RFP.findByIdAndDelete" ->
                IF ~RFPById(db, r).exists
                THEN Becomes(c, Answered(q, ErrorResponse(404, "RFP not found")), db)
                ELSE Becomes(c, [q EXCEPT !.pc = "Proposal.deleteMany"],
                             WithRFP(db, r, [RFPById(db, r) EXCEPT !.exists = FALSE]))
           [] q.pc = "Proposal.deleteMany" ->
                \* the requests that hold one of the deleted proposals hold a
                \* document that is no longer in the store
                /\ requests' = [d \in 1..Len(requests) |->
                                  IF d = c THEN NoCall
                                  ELSE IF requests[d].rfpId = r THEN [requests[d] EXCEPT !.doc = 0]
                                  ELSE requests[d]]
                /\ res' = OkResponse("RFP deleted successfully", NoData)
                /\ db' = WithProposals(db, r, <<>>)
      /\ UNCHANGED Aside /\ inbox' = inbox

\* some vendor of the list was found
SomeFound(found, vendorIds) == found # {} \/ vendorIds = <<>>

\* vendors.length !== vendorIds.length fails: as many vendors were found as
\* the list has entries
AllFound(found, vendorIds) == Cardinality(found) = Len(vendorIds)

\* POST /api/rfps/:id/vendors
rfpController_selectVendors(c) ==
  LET q == requests[c]
      r == q.rfpId
      found == {v \in db.vendors : \E i \in 1..Len(q.vendorIds) : q.vendorIds[i] = v}
  IN  /\ q.name = "selectVendors" /\ q.pc # "idle"
      /\ CASE q.pc = "RFP.findById" ->
                IF ~q.isArray
                THEN Becomes(c, Answered(q, ErrorResponse(400, "vendorIds array is required")), db)
                ELSE IF ~RFPById(db, r).exists
                THEN Becomes(c, Answered(q, ErrorResponse(404, "RFP not found")), db)
                ELSE Becomes(c, [q EXCEPT !.pc = "Vendor.find"], db)
           [] q.pc = "Vendor.find" ->
                IF \E i \in 1..Len(q.vendorIds) : q.vendorIds[i] = 0
                \* the query cannot cast the id and throws into the catch block
                THEN Becomes(c, Answered(q, ErrorResponse(500, "Error selecting vendors")), db)
                ELSE IF ~AllFound(found, q.vendorIds)
                THEN Becomes(c, Answered(q, ErrorResponse(400, "One or more vendor IDs are invalid")), db)
                ELSE Becomes(c, [q EXCEPT !.pc = "rfp.save"], db)
           [] q.pc = "rfp.save" ->
                \E response \in AfterSave(RFPById(db, r).exists,
                                          OkResponse("Vendors selected successfully", NoData),
                                          ErrorResponse(500, "Error selecting vendors")) :
                  Becomes(c, Answered(q, response),
                          IF RFPById(db, r).exists
                          THEN WithRFP(db, r, [RFPById(db, r) EXCEPT !.selectedVendors = q.vendorIds])
                          ELSE db)
      /\ UNCHANGED Aside /\ inbox' = inbox

\* the first await of each handler
FirstAwait(name) ==
  CASE name = "parseProposal" -> "Proposal.findById"
    [] name = "deleteRFP" -> "RFP.findByIdAndDelete"
    [] OTHER -> "RFP.findById"

\* a request of the given handler, run up to its first await; what the
\* handler checks before it is checked when the await settles
Request(name, r) == [NoCall EXCEPT !.name = name, !.pc = FirstAwait(name), !.rfpId = r]

\* a reply that quotes a price and a delivery time
QuoteText == Text(<<Money(900), Num(2), Word("weeks")>>)

CreateRequests(rfps, vendors) ==
  {[Request("createProposal", r) EXCEPT !.vendorId = v] : r \in rfps, v \in vendors}

SimulateRequests(rfps, vendors, bodies) ==
  {[Request("simulateProposal", r) EXCEPT !.vendorId = v, !.text = t] :
     r \in rfps, v \in vendors, t \in bodies}

CheckRequests(rfps) == {Request("checkEmails", r) : r \in rfps}

DeleteRequests(rfps) == {Request("deleteRFP", r) : r \in rfps}

\* the parse of the proposal at each place, and of one that is not stored
ParseRequests(store, rfps) ==
  UNION {{[Request("parseProposal", r) EXCEPT !.doc = i] : i \in 0..Len(ProposalsOf(store, r))} :
           r \in rfps}

\* lists of up to two vendor ids, 3 being the id of no vendor and 0 a
\* string that is no ObjectId
IdLists == {<<>>} \cup {<<v>> : v \in 0..3} \cup {<<v, w>> : v, w \in 0..3}

\* vendorIds of the body: missing, or a list
SelectRequests(rfps) ==
  {Request("selectVendors", r) : r \in rfps}
  \cup
  {[Request("selectVendors", r) EXCEPT !.isArray = TRUE, !.vendorIds = ids] :
     r \in rfps, ids \in IdLists}

\* request `call` is received while no request of the compare and send
\* handlers is in progress; c is the first free place among the requests
\* in progress
Receive(c, call) ==
  /\ requests[c].pc = "idle"
  /\ \A d \in 1..(c - 1) : requests[d].pc # "idle"
  /\ req.pc = "idle"
  /\ received < MaxReceived
  /\ requests' = [requests EXCEPT ![c] = call]
  /\ received' = received + 1
  /\ UNCHANGED <<db, inbox, res>>
  /\ UNCHANGED <<openai, pc, op, userInput, rfp, proposals, vendorName, netCalls, fallbackRuns, result,
                 calls, req, log, imap>>

\* no proposal or RFP request is in progress
Quiet == \A c \in 1..Len(requests) : requests[c].pc = "idle"

\* the addresses mail comes from: vendor 1 in two spellings, vendor 2, and
\* a sender that is no vendor
Senders == {"sales@acme.com", "SALES@ACME.COM", "bids@bolt.io", "news@lists.io"}

\* a message arrives in the INBOX
Arrives ==
  /\ Len(inbox) < MaxInbox
  /\ \E sender \in Senders : inbox' = Append(inbox, Message(sender, FALSE))
  /\ UNCHANGED <<db, requests, res>>
  /\ UNCHANGED Aside

\* the service before any invocation
ServiceIdle ==
  /\ openai \in {"null", "client"}
  /\ pc = "idle" /\ op = "none"
  /\ userInput = NotAString /\ rfp = NullRFP /\ proposals = <<>> /\ vendorName = NULL
  /\ netCalls = 0 /\ fallbackRuns = 0 /\ result = NoEnvelope

\* an RFP document of the store
StoredRFP(status, selected) ==
  [exists |-> TRUE, status |-> status, sentAt |-> (status # "draft"), selectedVendors |-> selected,
   doc |-> RFPOf("Laptop Procurement", SomeItems)]

\* requests side by side on the RFP that was sent to vendors 1 and 2,
\* with up to MaxInbox replies waiting
InitOverlap ==
  /\ ServiceIdle /\ openai = "null"
  /\ db = [NoStore EXCEPT !.rfp = StoredRFP("sent", <<1, 2>>), !.vendors = {1, 2}]
  /\ req = NoRequest /\ res = NoResponse /\ log = <<>> /\ calls = <<>>
  /\ requests = [c \in 1..MaxOverlap |-> NoCall] /\ received = 0 /\ imap = NoFetch
  /\ \E k \in 0..MaxInbox : \E f \in [1..k -> {"sales@acme.com", "bids@bolt.io"}] :
       inbox = [m \in 1..k |-> Message(f[m], FALSE)]

OverlapRequests ==
  CreateRequests({1}, {1, 2}) \cup SimulateRequests({1}, {1, 2}, {QuoteText}) \cup CheckRequests({1}) \cup DeleteRequests({1})

NextOverlap ==
  \/ \E c \in 1..Len(requests) : \E call \in OverlapRequests : Receive(c, call)
  \/ \E c \in 1..Len(requests) : proposalController_createProposal(c)
  \/ \E c \in 1..Len(requests) : proposalController_simulateProposal(c)
  \/ \E c \in 1..Len(requests) : proposalController_checkEmails(c)
  \/ \E c \in 1..Len(requests) : rfpController_deleteRFP(c)

SpecOverlap == InitOverlap /\ [][NextOverlap]_vars

\* one request after the other: RFP 1 sent to vendor 1 or to vendors 1 and
\* 2, the other RFP sent to vendor 2, replies arriving in between
InitPolling ==
  /\ ServiceIdle /\ openai = "null"
  /\ \E selected \in {<<1>>, <<1, 2>>} :
       db = [NoStore EXCEPT !.rfp = StoredRFP("sent", selected), !.other = StoredRFP("sent", <<2>>),
                            !.vendors = {1, 2}]
  /\ req = NoRequest /\ res = NoResponse /\ log = <<>> /\ calls = <<>>
  /\ requests = <<NoCall>> /\ received = 0 /\ imap = NoFetch
  /\ inbox = <<>>

PollingRequests == CheckRequests({1, 2}) \cup CreateRequests({1}, {1})

NextPolling ==
  \/ \E call \in PollingRequests : Receive(1, call)
  \/ proposalController_checkEmails(1)
  \/ proposalController_createProposal(1)
  \/ Arrives

SpecPolling == InitPolling /\ [][NextPolling]_vars


\* the selection requests one after the other: the RFP missing or stored
\* with a selection, none, one or both of vendors 1 and 2 in the store
InitSelect ==
  /\ ServiceIdle /\ openai = "null"
  /\ \E present \in BOOLEAN : \E selected \in {<<>>, <<1>>} : \E vendors \in {{}, {1}, {1, 2}} :
       db = [NoStore EXCEPT !.rfp = [StoredRFP("draft", selected) EXCEPT !.exists = present],
                            !.vendors = vendors]
  /\ req = NoRequest /\ res = NoResponse /\ log = <<>> /\ calls = <<>>
  /\ requests = <<NoCall>> /\ received = 0 /\ imap = NoFetch
  /\ inbox = <<>>

NextSelect ==
  \/ \E call \in SelectRequests({1}) : Receive(1, call)
  \/ rfpController_selectVendors(1)

SpecSelect == InitSelect /\ [][NextSelect]_vars


\* the workflow of one RFP, one request after the other: the draft with
\* vendors 1 and 2 selected, no proposal yet, the generative service not
\* configured, no mail or the reply of vendor 1 on its way
InitWorkflow ==
  /\ ServiceIdle /\ openai = "null"
  /\ db = [NoStore EXCEPT !.rfp = StoredRFP("draft", <<1, 2>>), !.vendors = {1, 2}]
  /\ req = NoRequest /\ res = NoResponse /\ log = <<>> /\ calls = <<>>
  /\ requests = <<NoCall>> /\ received = 0 /\ imap = NoFetch
  /\ inbox \in {<<>>, <<Message("sales@acme.com", FALSE)>>}

WorkflowRequests ==
  CreateRequests({1}, {1, 2}) \cup SimulateRequests({1}, {1, 2}, {QuoteText}) \cup CheckRequests({1})
  \cup ParseRequests(db, {1})

NextWorkflow ==
  \/ \E call \in WorkflowRequests : Receive(1, call)
  \/ proposalController_createProposal(1)
  \/ proposalController_simulateProposal(1)
  \/ proposalController_checkEmails(1)
  \/ proposalController_parseProposal(1)
  \/ Quiet /\ rfpController_sendRFPToVendors
  \/ emailContentSettled
  \/ sendEmailSettled
  \/ generateRFPEmail
  \/ Quiet /\ rfpController_compareProposals
  \/ compareProposalsSettled
  \/ compareProposals

SpecWorkflow == InitWorkflow /\ [][NextWorkflow]_vars


\* ------------------------------------------------------- fetchNewEmails
\* resolve(value) of the promise: only the first settlement counts
Resolve(f, value) ==
  IF f.promise = "pending" THEN [f EXCEPT !.promise = "resolved", !.value = value] ELSE f

\* reject(err) of the promise
Reject(f) == IF f.promise = "pending" THEN [f EXCEPT !.promise = "rejected"] ELSE f

\* what a fetchNewEmails call leaves alone
Outside ==
  <<openai, pc, op, userInput, rfp, proposals, vendorName, netCalls, fallbackRuns, result,
    db, req, res, log, calls, requests, inbox, received>>

\* imap.once('ready'): the box is being opened
imapReady ==
  /\ imap.phase = "connecting" /\ ~imap.ended /\ ~imap.failed
  /\ imap' = [imap EXCEPT !.phase = "opening"]
  /\ UNCHANGED Outside

\* the callback of imap.openBox
openBoxCallback ==
  /\ imap.phase = "opening"
  /\ \E err \in BOOLEAN :
       imap' = IF err THEN Reject([imap EXCEPT !.phase = "abandoned"])
               ELSE [imap EXCEPT !.phase = "searching"]
  /\ UNCHANGED Outside

\* the callback of imap.search: an error, no result (imap.end() and
\* resolve([])) or the fetch of up to MaxFetched messages
searchCallback ==
  /\ imap.phase = "searching"
  /\ \/ imap' = Reject([imap EXCEPT !.phase = "abandoned"])
     \/ imap' = Resolve([imap EXCEPT !.phase = "ending"], <<>>)
     \/ \E k \in 1..MaxFetched :
          imap' = [imap EXCEPT !.phase = "fetching", !.results = 1..k,
                               !.parsing = [m \in 1..k |-> "waiting"]]
  /\ UNCHANGED Outside

\* fetch.on('message') and msg.on('body'): simpleParser starts on message m
fetchMessage(m) ==
  /\ imap.phase = "fetching" /\ ~imap.ended /\ ~imap.failed
  /\ m \in imap.results /\ imap.parsing[m] = "waiting"
  /\ imap' = [imap EXCEPT !.parsing[m] = "started"]
  /\ UNCHANGED Outside

\* the callback of simpleParser for message m: an error is logged, a parsed
\* message is pushed to emails, whatever has happened to the promise
parserCallback(m) ==
  /\ m \in imap.results /\ imap.parsing[m] = "started"
  /\ \/ imap' = [imap EXCEPT !.parsing[m] = "failed"]
     \/ imap' = [imap EXCEPT !.parsing[m] = "parsed", !.emails = Append(@, m)]
  /\ UNCHANGED Outside

\* fetch.once('error')
fetchError ==
  /\ imap.phase = "fetching" /\ ~imap.ended /\ ~imap.failed
  /\ imap' = Reject([imap EXCEPT !.phase = "abandoned"])
  /\ UNCHANGED Outside

\* fetch.once('end'): every message has been emitted; imap.end()
fetchEnd ==
  /\ imap.phase = "fetching" /\ ~imap.ended /\ ~imap.failed
  /\ \A m \in imap.results : imap.parsing[m] # "waiting"
  /\ imap' = [imap EXCEPT !.phase = "ending"]
  /\ UNCHANGED Outside

\* imap.once('end'): the connection has ended, after imap.end() or because
\* the server closed it; the timer of one second is set
imapEnd ==
  /\ imap.phase # "idle" /\ ~imap.ended
  /\ imap' = [imap EXCEPT !.ended = TRUE, !.timer = "set"]
  /\ UNCHANGED Outside

\* setTimeout(() => resolve(emails), 1000) fires, whether or not a parser is
\* still running: resolve(emails)
timerFires ==
  /\ imap.timer = "set"
  /\ imap' = Resolve([imap EXCEPT !.timer = "fired"], imap.emails)
  /\ UNCHANGED Outside

\* imap.once('error')
imapError ==
  /\ imap.phase # "idle" /\ ~imap.ended /\ ~imap.failed
  /\ imap' = Reject([imap EXCEPT !.failed = TRUE])
  /\ UNCHANGED Outside

\* fetchNewEmails has been called: imap.connect()
InitFetch ==
  /\ ServiceIdle /\ openai = "null"
  /\ db = NoStore /\ req = NoRequest /\ res = NoResponse /\ log = <<>> /\ calls = <<>>
  /\ requests = <<>> /\ inbox = <<>> /\ received = 0
  /\ imap = [NoFetch EXCEPT !.phase = "connecting"]

NextFetch ==
  \/ imapReady
  \/ openBoxCallback
  \/ searchCallback
  \/ \E m \in imap.results : fetchMessage(m)
  \/ \E m \in imap.results : parserCallback(m)
  \/ fetchError
  \/ fetchEnd
  \/ imapEnd
  \/ timerFires
  \/ imapError

SpecFetch == InitFetch /\ [][NextFetch]_vars


\* ================================================================= claims
Done == pc \in {"returned", "thrown"}

IsRFPCall == op = "parseRFPFromNaturalLanguage"

GenerativeFailed == netCalls = 1 /\ fallbackRuns = 1

FallbackAnalysis == pc = "returned" /\ result.usedFallback /\ result.data.kind = "analysis"

VendorScores == result.data.vendorScores

\* C1: every core operation completes by returning an envelope, never by
\* throwing; a fallback that throws yields the envelope {success:false, error}.
C1_NeverThrows ==
  /\ pc # "thrown"
  /\ (pc = "returned" /\ fallbackRuns = 1 /\ FallbackThrows(op))
       => (~result.success /\ result.error # NULL)

\* C2 as claimed: on every path and for every input, parseRFPFromNaturalLanguage
\* returns success=true with data.items a list of length >= 1.
C2_ExtractionAlwaysHasItems ==
  (IsRFPCall /\ Done)
    => (pc = "returned" /\ result.success /\ result.data.hasItems /\ Len(result.data.items) >= 1)

\* C2 amended: for every string input, whenever parseRFPFromNaturalLanguage
\* takes the regex fallback (service not configured, or the generative call
\* failed) it returns success=true with data.items a list of length >= 1.
C2_FallbackExtractionHasItems ==
  (IsRFPCall /\ Done /\ userInput.isString /\ fallbackRuns = 1)
    => (pc = "returned" /\ result.success /\ result.data.hasItems /\ Len(result.data.items) >= 1)

C2_Witness ==
  /\ IsRFPCall /\ pc = "returned" /\ result.usedFallback
  /\ netCalls = 1
  /\ result.data.items[1].name = "Items as specified"

\* C3: with the service not configured (client null) no operation ever issues
\* a network call; it runs the fallback at once and what it returns is the
\* fallback's result with success=true and usedFallback=true (it returns no
\* other envelope; without a result of the fallback there is none to return).
C3_UnconfiguredSkipsNetwork ==
  openai = "null" =>
    /\ netCalls = 0
    /\ pc # "awaiting"
    /\ Done => fallbackRuns = 1
    /\ pc = "returned" =>
         (result.success /\ result.usedFallback /\ result.data = FallbackData(op))
    /\ pc = "thrown" => FallbackThrows(op)

C3_Witness ==
  /\ openai = "null" /\ pc = "returned" /\ op = "generateRFPEmail"
  /\ result.usedFallback /\ Len(result.data.itemLines) = 1

\* C4: with the service configured, a failed generative call (transport error
\* or invalid JSON) makes the operation return the fallback result with
\* success=true and usedFallback=true; a successful call returns the parsed
\* response without the usedFallback flag; success=false is returned only
\* when the fallback itself failed.
C4_FailureFallsBack ==
  (openai = "client" /\ Done) =>
    /\ (GenerativeFailed /\ ~FallbackThrows(op)) =>
         (pc = "returned" /\ result.success /\ result.usedFallback
            /\ result.data = FallbackData(op))
    /\ (netCalls = 1 /\ fallbackRuns = 0) =>
         (pc = "returned" /\ result.success /\ ~result.usedFallback
            /\ result.data \in ParsedResponses(op))
    /\ (pc = "returned" /\ ~result.success) => (GenerativeFailed /\ FallbackThrows(op))

C4_Witness ==
  /\ openai = "client" /\ pc = "returned" /\ GenerativeFailed
  /\ op = "parseVendorProposal" /\ result.usedFallback
  /\ result.data.totalPrice = Some(900)

\* C5: one invocation calls the generative service at most once and runs the
\* fallback at most once; once the fallback has run no call is outstanding.
C5_AttemptOnce ==
  /\ netCalls <= 1
  /\ fallbackRuns <= 1
  /\ pc = "awaiting" => (netCalls = 1 /\ fallbackRuns = 0)

C5_Witness ==
  /\ op = "compareProposals" /\ pc = "returned"
  /\ netCalls = 1 /\ fallbackRuns = 1 /\ Len(proposals) = 2

\* C6: every priceScore, deliveryScore, termsScore and overallScore returned
\* by the fallback comparison lies in [0,100].
C6_ScoresInRange ==
  FallbackAnalysis =>
    \A i \in 1..Len(VendorScores) :
      /\ VendorScores[i].priceScore \in 0..100
      /\ VendorScores[i].deliveryScore \in 0..100
      /\ VendorScores[i].termsScore \in 0..100
      /\ VendorScores[i].overallScore \in 0..100

\* a delivery score above 100 and one below 0 before clamping, an overall
\* score above 100 before clamping
C6_Witness ==
  /\ FallbackAnalysis /\ Len(proposals) = 2
  /\ proposals[1].deliveryDays = Some(-30) /\ proposals[1].totalPrice = Some(5000)
  /\ proposals[1].warranty # NULL
  /\ proposals[2].deliveryDays = Some(600) /\ proposals[2].totalPrice = None

\* C7: in every returned VendorScore, overallScore is the mean of the
\* returned priceScore, deliveryScore and termsScore, rounded to the nearest
\* integer.
C7_OverallIsMeanOfReturned ==
  FallbackAnalysis =>
    \A i \in 1..Len(VendorScores) :
      VendorScores[i].overallScore =
        RoundDiv(VendorScores[i].priceScore + VendorScores[i].deliveryScore
                   + VendorScores[i].termsScore, 3)

\* the score record computed for the proposal of vendor v
ScoreOfVendor(v) == ScoreOf(proposals[v], proposals)

\* C8: vendorScores holds one record per proposal, ordered by non-increasing
\* overallScore; records with equal overallScore keep the order of the input
\* (vendor i is the i-th proposal of the input).
C8_SortedStable ==
  FallbackAnalysis =>
    /\ Len(VendorScores) = Len(proposals)
    /\ {VendorScores[i].vendorId : i \in 1..Len(VendorScores)} = 1..Len(proposals)
    /\ \A i \in 1..Len(VendorScores) : VendorScores[i] = ScoreOfVendor(VendorScores[i].vendorId)
    /\ \A i, j \in 1..Len(VendorScores) :
         i < j =>
           /\ VendorScores[i].overallScore >= VendorScores[j].overallScore
           /\ VendorScores[i].overallScore = VendorScores[j].overallScore
                => VendorScores[i].vendorId < VendorScores[j].vendorId

\* three proposals, the first two tied below the third
C8_Witness ==
  /\ FallbackAnalysis /\ Len(VendorScores) = 3
  /\ ScoreOfVendor(1).overallScore = ScoreOfVendor(2).overallScore
  /\ ScoreOfVendor(3).overallScore > ScoreOfVendor(1).overallScore
  /\ VendorScores[1].vendorId = 3 /\ VendorScores[2].vendorId = 1 /\ VendorScores[3].vendorId = 2

\* C9: the recommendation names the vendor of the first sorted entry, whose
\* overallScore is >= that of every proposal; alternativeOption names the
\* second sorted entry when there are at least two proposals, else it is null.
C9_RecommendsTop ==
  FallbackAnalysis =>
    LET rec == result.data.recommendation
    IN  /\ rec.recommendedVendorId = VendorScores[1].vendorId
        /\ rec.recommendedVendorName = VendorNameOf(rec.recommendedVendorId)
        /\ \A v \in 1..Len(proposals) :
             ScoreOfVendor(rec.recommendedVendorId).overallScore >= ScoreOfVendor(v).overallScore
        /\ Len(proposals) >= 2 =>
             rec.alternativeOption = VendorScores[2].vendorName \o " as second choice"
        /\ Len(proposals) = 1 => rec.alternativeOption = NULL

C9_Witness ==
  /\ FallbackAnalysis /\ Len(proposals) = 3
  /\ result.data.recommendation.recommendedVendorId = 2
  /\ result.data.recommendation.alternativeOption = "Core as second choice"

PositivePrice(v) == proposals[v].totalPrice.has /\ proposals[v].totalPrice.v > 0

PriceScoreOfVendor(v) == (CHOOSE r \in {VendorScores[i] : i \in 1..Len(VendorScores)} : r.vendorId = v).priceScore

\* C10: among proposals with positive prices a cheaper one never gets a lower
\* priceScore than a costlier one; the cheapest priced proposal scores 100;
\* of exactly two proposals with distinct positive prices the cheaper one's
\* priceScore is strictly greater.
C10_CheaperScoresHigher ==
  FallbackAnalysis =>
    /\ \A v, w \in 1..Len(proposals) :
         (PositivePrice(v) /\ PositivePrice(w) /\ proposals[v].totalPrice.v < proposals[w].totalPrice.v)
           => /\ PriceScoreOfVendor(v) >= PriceScoreOfVendor(w)
              /\ Len(proposals) = 2 => PriceScoreOfVendor(v) > PriceScoreOfVendor(w)
    /\ \A v \in 1..Len(proposals) :
         (PositivePrice(v) /\ \A w \in 1..Len(proposals) :
                                TruthyNum(proposals[w].totalPrice)
                                  => proposals[v].totalPrice.v <= proposals[w].totalPrice.v)
           => PriceScoreOfVendor(v) = 100

\* three distinct positive prices, the middle one rounded
C10_Witness ==
  /\ FallbackAnalysis /\ Len(proposals) = 3
  /\ proposals[1].totalPrice = Some(8000)
  /\ proposals[2].totalPrice = Some(5000)
  /\ proposals[3].totalPrice = Some(6000)
  /\ PriceScoreOfVendor(3) = 83

ReturnedScoreOfVendor(v) == CHOOSE r \in {VendorScores[i] : i \in 1..Len(VendorScores)} : r.vendorId = v

\* the reference formula of the price score: the maximum over all
\* totals-or-zero, the minimum over the proposals that have a price
ReferencePriceScore(v) ==
  LET price == proposals[v].totalPrice.v
      maxPrice == SetMax({IF TruthyNum(proposals[w].totalPrice) THEN proposals[w].totalPrice.v ELSE 0 :
                            w \in 1..Len(proposals)})
      minPrice == SetMin({proposals[w].totalPrice.v :
                            w \in {u \in 1..Len(proposals) : TruthyNum(proposals[u].totalPrice)}})
      den == IF maxPrice - minPrice = 0 THEN 1 ELSE maxPrice - minPrice
  IN  Clamp(RoundDiv(100 * den - 50 * (price - minPrice), den))

\* C11 as claimed: priceScore is 50 for a proposal without a totalPrice and
\* the reference formula for every proposal that has one.
C11_PriceScoreIsReference ==
  FallbackAnalysis =>
    \A v \in 1..Len(proposals) :
      ReturnedScoreOfVendor(v).priceScore =
        IF TruthyNum(proposals[v].totalPrice) THEN ReferencePriceScore(v) ELSE 50

\* C11 amended: priceScore is 50 for a proposal whose totalPrice is missing,
\* zero or negative, and the reference formula for every proposal whose
\* totalPrice is positive.
C11_PositivePriceScoreIsReference ==
  FallbackAnalysis =>
    \A v \in 1..Len(proposals) :
      ReturnedScoreOfVendor(v).priceScore =
        IF proposals[v].totalPrice.has /\ proposals[v].totalPrice.v > 0
        THEN ReferencePriceScore(v) ELSE 50

\* a negative total next to a positive one: the first keeps the fixed score,
\* the second is measured against the negative minimum
C11_Witness ==
  /\ FallbackAnalysis /\ Len(proposals) = 2
  /\ proposals[1].totalPrice = Some(-100)
  /\ proposals[2].totalPrice = Some(8000)
  /\ ReturnedScoreOfVendor(1).priceScore = 50
  /\ ReturnedScoreOfVendor(2).priceScore = 50

\* C12: deliveryScore is round(100 - (deliveryDays / 60) * 50) clamped to
\* [0,100] for every proposal whose deliveryDays is a number below 999,
\* 0 included, and exactly 50 without deliveryDays or with deliveryDays >= 999.
C12_DeliveryScoreIsReference ==
  FallbackAnalysis =>
    \A v \in 1..Len(proposals) :
      ReturnedScoreOfVendor(v).deliveryScore =
        IF proposals[v].deliveryDays.has /\ proposals[v].deliveryDays.v < 999
        THEN Clamp(RoundDiv(100 * 60 - 50 * proposals[v].deliveryDays.v, 60))
        ELSE 50

\* C20: termsScore is 80 when the proposal has a non-empty warranty string
\* and 60 otherwise, whatever its other fields and the other proposals are.
C20_TermsScoreFromWarranty ==
  FallbackAnalysis =>
    \A v \in 1..Len(proposals) :
      ReturnedScoreOfVendor(v).termsScore =
        IF proposals[v].warranty \notin {NULL, ""} THEN 80 ELSE 60

\* an empty warranty string next to a stated warranty
C20_Witness ==
  /\ FallbackAnalysis /\ Len(proposals) = 3
  /\ proposals[1].warranty = "" /\ proposals[2].warranty = "2 years warranty"
  /\ proposals[3].warranty = NULL
  /\ ReturnedScoreOfVendor(1).termsScore = 60 /\ ReturnedScoreOfVendor(2).termsScore = 80

\* the result of a regex fallback extraction
FallbackExtraction ==
  /\ op = "parseRFPFromNaturalLanguage" /\ pc = "returned"
  /\ result.usedFallback /\ result.success

ExtractedItems == result.data.items

\* the (category, position) pairs at which a catalogue pattern matches
CatalogueMatches ==
  {<<c, i>> \in (1..Len(ItemPatterns)) \X (1..Len(userInput.toks)) :
     /\ i < Len(userInput.toks)
     /\ userInput.toks[i].k \in {"num", "money"}
     /\ userInput.toks[i + 1].k = "word"
     /\ userInput.toks[i + 1].w \in ItemPatterns[c]}

Before(m1, m2) == m1[1] < m2[1] \/ (m1[1] = m2[1] /\ m1[2] < m2[2])

\* the k-th match, counting category by category and left to right inside one
MatchOfRank(k) ==
  CHOOSE m \in CatalogueMatches : Cardinality({n \in CatalogueMatches : Before(n, m)}) = k - 1

\* the items are the matches, grouped by category in catalogue order
GroupedByCategory ==
  /\ Len(ExtractedItems) = Cardinality(CatalogueMatches)
  /\ \A k \in 1..Len(ExtractedItems) :
       /\ ExtractedItems[k].name = ItemNameOf(userInput.toks[MatchOfRank(k)[2] + 1].w)
       /\ ExtractedItems[k].quantity = userInput.toks[MatchOfRank(k)[2]].n

RamText == ToString(userInput.toks[SetMin(RamMatches(userInput.toks))].n) \o "GB RAM"

ScreenText == ToString(userInput.toks[SetMin(ScreenMatches(userInput.toks))].n) \o " inch"

FirstMonitor == SetMin({k \in 1..Len(ExtractedItems) : ExtractedItems[k].name = "Monitor"})

HasMonitor == \E k \in 1..Len(ExtractedItems) : ExtractedItems[k].name = "Monitor"

ScenarioResult ==
  userInput = ScenarioText =>
    /\ ExtractedItems = <<[name |-> "Laptop", quantity |-> 5, specifications |-> "16GB RAM"],
                          [name |-> "Monitor", quantity |-> 2, specifications |-> "24 inch"]>>
    /\ result.data.budget = Some(10000)
    /\ result.data.deliveryDays = Some(14)
    /\ result.data.paymentTerms = "Net 30"
    /\ result.data.warranty = "2 years warranty"

\* C16 as claimed: the worked example yields Laptop x5 "16GB RAM", Monitor x2
\* "24 inch", budget 10000, deliveryDays 14, "Net 30", "2 years warranty";
\* the items are grouped by catalogue category in catalogue order; a RAM size
\* found in the text is the specification of the first item and a screen size
\* found in the text is the specification of the first Monitor item.
C16_SpecificationsPlaced ==
  FallbackExtraction =>
    /\ ScenarioResult
    /\ CatalogueMatches # {} =>
         /\ GroupedByCategory
         /\ RamMatches(userInput.toks) # {} => ExtractedItems[1].specifications = RamText
         /\ (ScreenMatches(userInput.toks) # {} /\ HasMonitor) =>
              ExtractedItems[FirstMonitor].specifications = ScreenText

\* C16 amended: as above, except that the first item carries the RAM size
\* only when it is not the Monitor item that received a screen size, and
\* every other item has empty specifications.
C16_ScreenReplacesRam ==
  FallbackExtraction =>
    /\ ScenarioResult
    /\ CatalogueMatches # {} =>
         /\ GroupedByCategory
         /\ \A k \in 1..Len(ExtractedItems) :
              ExtractedItems[k].specifications =
                IF ScreenMatches(userInput.toks) # {} /\ HasMonitor /\ k = FirstMonitor
                THEN ScreenText
                ELSE IF RamMatches(userInput.toks) # {} /\ k = 1 THEN RamText
                ELSE ""

\* the worked example has been extracted
C16_Witness ==
  /\ FallbackExtraction /\ userInput = ScenarioText
  /\ Len(ExtractedItems) = 2 /\ ExtractedItems[1].specifications = "16GB RAM"

\* C17: every item of a regex fallback extraction has a quantity >= 1,
\* whatever the text.
C17_QuantityAtLeastOne ==
  FallbackExtraction =>
    \A k \in 1..Len(ExtractedItems) : ExtractedItems[k].quantity >= 1

\* the result of the fallback email template
FallbackEmail ==
  /\ op = "generateRFPEmail" /\ pc = "returned"
  /\ result.usedFallback /\ result.success

ItemLines == result.data.itemLines

\* the line the template prescribes for an item
LineFor(item) ==
  IF item.specifications = ""
  THEN "  * " \o item.name \o ": Quantity " \o ToString(item.quantity)
  ELSE "  * " \o item.name \o ": Quantity " \o ToString(item.quantity)
         \o " (" \o item.specifications \o ")"

\* C15 as claimed: for an RFP with N >= 0 items the items section of the
\* fallback email body has exactly N lines, the i-th showing the i-th item's
\* name, quantity and (when non-empty) specifications.
C15_OneLinePerItem ==
  FallbackEmail =>
    /\ Len(ItemLines) = Len(rfp.items)
    /\ \A i \in 1..Len(rfp.items) : ItemLines[i] = LineFor(rfp.items[i])

\* C15 amended: the same for N >= 1; for an RFP with no items (an empty list
\* or no list) the items section is the single line "As per requirements".
C15_OneLinePerItemOrPlaceholder ==
  FallbackEmail =>
    IF Len(rfp.items) = 0 THEN ItemLines = <<"  * As per requirements">>
    ELSE /\ Len(ItemLines) = Len(rfp.items)
         /\ \A i \in 1..Len(rfp.items) : ItemLines[i] = LineFor(rfp.items[i])

\* three items, with and without specifications
C15_Witness ==
  /\ FallbackEmail /\ Len(rfp.items) = 3
  /\ rfp.items[1].specifications = "" /\ rfp.items[2].specifications = "24 inch"
  /\ ItemLines[2] = "  * Monitor: Quantity 2 (24 inch)"

\* a step that serves one GET /api/rfps/:id/compare request from its start
CompareRequested ==
  req.pc = "idle" /\ req'.n = req.n + 1 /\ req'.name = "compareProposals"

ParsedCount == Cardinality({i \in 1..Len(db.proposals) : db.proposals[i].isParsingComplete})

TheParsedProposal == CHOOSE d \in {db.proposals[i] : i \in 1..Len(db.proposals)} : d.isParsingComplete

EngineNotInvoked == UNCHANGED <<pc, op, netCalls, fallbackRuns, result>>

\* C13: with exactly one parsed proposal the compare handler answers with a
\* recommendation naming that proposal's vendor, does not invoke the
\* comparison engine and leaves the RFP and every proposal as they were.
C13_SingleProposalShortCircuits ==
  [][(CompareRequested /\ db.rfp.exists /\ ParsedCount = 1) =>
       /\ req'.pc = "idle"
       /\ res'.status = 200 /\ res'.success
       /\ res'.data.recommendation.recommendedVendorId = TheParsedProposal.vendorId
       /\ res'.data.recommendation.recommendedVendorName = VendorNameOf(TheParsedProposal.vendorId)
       /\ EngineNotInvoked
       /\ db' = db]_vars

\* C14: with no parsed proposal the compare handler answers 400 with
\* success=false, does not invoke the comparison engine and changes neither
\* the RFP nor any proposal.
C14_NoParsedProposalRejected ==
  [][(CompareRequested /\ db.rfp.exists /\ ParsedCount = 0) =>
       /\ req'.pc = "idle"
       /\ res'.status = 400 /\ ~res'.success
       /\ EngineNotInvoked
       /\ db' = db]_vars

\* proposals are stored, none of them parsed, and the request was rejected
C14_Witness ==
  /\ req.name = "compareProposals" /\ req.pc = "idle" /\ res.status = 400
  /\ Len(db.proposals) = 2 /\ ParsedCount = 0
  /\ netCalls = 0 /\ fallbackRuns = 0

SendRequested == req.name = "sendRFPToVendors"

\* the send request has been answered after its loop
SendDone == SendRequested /\ req.pc = "idle" /\ res.status = 200

\* the place of a vendor among the vendors of the request
PlaceOf(v) == CHOOSE i \in 1..Len(req.vendors) : req.vendors[i] = v

Logged(e, v) == \E j \in 1..Len(log) : log[j].e = e /\ log[j].v = v

\* the generation for v has settled, and so has its send if one was started
CompletedFor(v) ==
  /\ Logged("generated", v)
  /\ \A j \in 1..Len(log) :
       (log[j].e = "send" /\ log[j].v = v) =>
         \E k \in (j + 1)..Len(log) : log[k].e = "sent" /\ log[k].v = v

\* every call for a vendor comes after every call for the vendors before it,
\* which have all settled by then
OneVendorAtATime ==
  /\ \A j, k \in 1..Len(log) : PlaceOf(log[j].v) < PlaceOf(log[k].v) => j < k
  /\ \A k \in 1..Len(log) : \A i \in 1..(PlaceOf(log[k].v) - 1) : CompletedFor(req.vendors[i])

\* the email for v was generated and its send succeeded
OwnFlag(v) == \E j \in 1..Len(log) : log[j] = Event("sent", v, TRUE)

\* C18: the send loop handles one vendor at a time, generation and send of a
\* vendor settling before anything is started for the next; the results hold
\* one entry per selected vendor, in vendor order, with that vendor's own
\* success flag; and no failed generation or send keeps a later vendor from
\* being attempted.
C18_SequentialSendLoop ==
  SendRequested =>
    /\ OneVendorAtATime
    /\ res.status # 500
    /\ SendDone =>
         /\ req.vendors = SelectedVendors(db)
         /\ Len(res.data.results) = Len(req.vendors)
         /\ \A i \in 1..Len(req.vendors) :
              /\ res.data.results[i].vendorId = req.vendors[i]
              /\ res.data.results[i].vendorName = VendorNameOf(req.vendors[i])
              /\ res.data.results[i].sent = OwnFlag(req.vendors[i])
              /\ Logged("generate", req.vendors[i])

\* three vendors, the email of the second one not sent, the third one sent
C18_Witness ==
  /\ SendDone /\ Len(req.vendors) = 3
  /\ res.data.results[1].sent /\ ~res.data.results[2].sent /\ res.data.results[3].sent

\* invocation c has returned the result of its fallback
ReturnedFallback(c) == calls[c].pc = "returned" /\ calls[c].result.usedFallback

HasRemark(remarks, about) == \E i \in 1..Len(remarks) : remarks[i].about = about

HasText(remarks, text) == \E i \in 1..Len(remarks) : remarks[i].text = text

\* C30: in each VendorScore of a fallback comparison a price-related pro
\* appears only when the proposal has a totalPrice, a delivery-related pro
\* only when it has deliveryDays, the con 'Price not clearly specified'
\* exactly when it has no totalPrice, the con 'No warranty information'
\* exactly when it has no warranty, and no record carries both a price pro
\* and the price con.
C30_ProsConsAgreeWithFields ==
  FallbackAnalysis =>
    \A v \in 1..Len(proposals) :
      LET r == ReturnedScoreOfVendor(v)
          p == proposals[v]
      IN  /\ HasRemark(r.pros, "price") => p.totalPrice.has
          /\ HasRemark(r.pros, "delivery") => p.deliveryDays.has
          /\ HasText(r.cons, "Price not clearly specified") <=> ~TruthyNum(p.totalPrice)
          /\ HasText(r.cons, "No warranty information") <=> ~TruthyStr(p.warranty)
          /\ ~(HasRemark(r.pros, "price") /\ HasText(r.cons, "Price not clearly specified"))

\* C27: the RFP's status becomes 'sent' and sentAt is set only if at least
\* one selected vendor's email was sent successfully; the answer 400 for no
\* selected vendors leaves status and sentAt unchanged.
C27_SentOnlyAfterDelivery ==
  [][/\ (db'.rfp.status = "sent" /\ db'.rfp # db.rfp) =>
          \E i \in 1..Len(req'.sendResults) : req'.sendResults[i].sent
     /\ (req'.name = "sendRFPToVendors" /\ req'.n # req.n /\ res'.status = 400) =>
          db'.rfp = db.rfp]_vars

\* C21: after any sequence and any interleaving of createProposal,
\* simulateProposal and checkEmails requests the store holds at most one
\* proposal for each (rfpId, vendorId) pair.
C21_OneProposalPerVendor ==
  \A i, j \in 1..Len(db.proposals) : db.proposals[i].vendorId = db.proposals[j].vendorId => i = j

\* a deleteRFP request is between its two awaits
Deleting == \E c \in 1..Len(requests) : requests[c].name = "deleteRFP" /\ requests[c].pc # "idle"

\* C22: once deleteRFP has answered, in every state reachable by
\* interleaving it with createProposal, simulateProposal or checkEmails for
\* the same RFP, no stored proposal references the RFP that no longer exists.
C22_NoProposalOfDeletedRFP ==
  (~db.rfp.exists /\ ~Deleting) => db.proposals = <<>>

\* request c of the given handler answers in this step
Answers(c, name) ==
  requests[c].name = name /\ requests[c].pc # "idle" /\ requests'[c].pc = "idle"

\* the proposals of RFP r stored by this step
StoredNow(r) == SubSeq(ProposalsOf(db', r), Len(ProposalsOf(db, r)) + 1, Len(ProposalsOf(db', r)))

\* C23: checkEmails creates a proposal only for a fetched email whose sender
\* equals, case-insensitively, the email of a vendor selected for the RFP,
\* and only when that vendor has no proposal for the RFP yet; within one
\* call at most one proposal is created per selected vendor and
\* proposalsCreated <= emailsFound.
C23_ProposalOnlyForNewVendorReply ==
  [][\A c \in 1..Len(requests) :
       LET q == requests[c]
           r == q.rfpId
       IN  q.name = "checkEmails" =>
             /\ Len(ProposalsOf(db', r)) <= Len(ProposalsOf(db, r)) + 1
             /\ \A k \in 1..Len(StoredNow(r)) :
                  LET v == StoredNow(r)[k].vendorId
                  IN  /\ \E i \in 1..Len(RFPById(db, r).selectedVendors) :
                           RFPById(db, r).selectedVendors[i] = v
                      /\ \E m \in 1..Len(inbox) :
                           /\ inbox[m].seen
                           /\ ToLowerCase(inbox[m].fromAddress) = ToLowerCase(VendorEmailOf(v))
                      /\ ~ExistingProposal(db, r, v)
                      /\ \A i \in 1..Len(q.newProposals) : q.newProposals[i] # v
             /\ (Answers(c, "checkEmails") /\ res'.status = 200) =>
                  res'.data.proposalsCreated <= res'.data.emailsFound]_vars

\* a call has stored the proposal of vendor 1 for a reply whose address is
\* spelled in capitals and has skipped a second reply of that vendor
C23_Witness ==
  /\ requests[1].name = "checkEmails" /\ requests[1].pc = "rfp.save"
  /\ requests[1].emails = <<"SALES@ACME.COM", "sales@acme.com">>
  /\ requests[1].newProposals = <<1>>
  /\ Len(db.proposals) = 1 /\ db.proposals[1].vendorId = 1

\* the vendors selected for RFP r that still exist
SelectedFor(r) == {v \in db.vendors : \E i \in 1..Len(RFPById(db, r).selectedVendors) :
                                        RFPById(db, r).selectedVendors[i] = v}

\* C28: no vendor reply is lost by polling: when a checkEmails call for an
\* RFP has answered, every message that has been fetched (and is marked as
\* seen) and comes from a vendor selected for that RFP has led to a proposal
\* of that vendor for the RFP, also when it was fetched by the poll of
\* another RFP.
C28_NoReplyLost ==
  [][\A c \in 1..Len(requests) :
       (Answers(c, "checkEmails") /\ res'.status = 200) =>
         \A m \in 1..Len(inbox') :
           \A v \in SelectedFor(requests[c].rfpId) :
             (inbox'[m].seen /\ ToLowerCase(inbox'[m].fromAddress) = ToLowerCase(VendorEmailOf(v)))
               => ExistingProposal(db', requests[c].rfpId, v)]_vars

\* every id of the list is the id of a vendor in the store
AllExist(vendorIds) == \A i \in 1..Len(vendorIds) : vendorIds[i] \in db.vendors

\* no id occurs twice in the list
Distinct(vendorIds) == \A i, j \in 1..Len(vendorIds) : vendorIds[i] = vendorIds[j] => i = j

\* every entry of the list is an ObjectId
WellFormed(vendorIds) == \A i \in 1..Len(vendorIds) : vendorIds[i] # 0

\* the selectVendors request c, for a stored RFP and with a list in its
\* body, answers `accepted` lists with 200 and the selection replaced, and
\* every other list with one of `refusals` and the selection unchanged
SelectsExactly(c, accepted, refusals) ==
  LET q == requests[c]
  IN  (q.name = "selectVendors" /\ q.pc # "idle" /\ q.isArray /\ db.rfp.exists) =>
        /\ Answers(c, "selectVendors") =>
             IF accepted
             THEN res'.status = 200 /\ db'.rfp.selectedVendors = q.vendorIds
             ELSE res'.status \in refusals /\ db' = db
        /\ ~Answers(c, "selectVendors") => db' = db

C25_EvaluatedIsParsed ==
  \A i \in 1..Len(db.proposals) :
    db.proposals[i].status = "evaluated" => db.proposals[i].isParsingComplete

\* the place of a status in draft -> sent -> responses_received -> evaluated
StatusRank(status) ==
  CASE status = "draft" -> 0
    [] status = "sent" -> 1
    [] status = "responses_received" -> 2
    [] status = "evaluated" -> 3

\* C26: under the send, create, simulate, check-emails and compare handlers
\* the RFP's status never returns to an earlier status and never leaves
\* 'draft' for 'responses_received' or 'evaluated'.
C26_StatusMovesForward ==
  [][/\ StatusRank(db'.rfp.status) >= StatusRank(db.rfp.status)
     /\ db.rfp.status = "draft" => db'.rfp.status \in {"draft", "sent"}]_vars

\* C29: under every ordering of the fetch 'end', connection 'end', timer
\* and parse-completion callbacks the promise of fetchNewEmails is settled
\* once, and when it is resolved the list holds every message returned by
\* the search whose parsing succeeded.
C29_ResolvedListIsComplete ==
  imap.promise = "resolved" =>
       \A m \in imap.results :
         imap.parsing[m] = "parsed" => \E i \in 1..Len(imap.value) : imap.value[i] = m

====
